---- MODULE Spec2Model ----
(***************************************************************************)
(* Workout segmentation engine of fit_to_yaml_blocks.py.                   *)
(*                                                                         *)
(* Units.  Durations and timestamps are integers in tenths of a second     *)
(* (300 = 30.0 s), power values are integers in hundredths of a watt       *)
(* where the code divides targets by 10 or 100, percentages are integers   *)
(* in tenths of a percent (1000 = 100.0), durations in minutes are tenths  *)
(* of a minute.  Python's None is the value None for numeric fields (a     *)
(* number no real field value of the model reaches) and the string "none"  *)
(* for text fields.                                                        *)
(* List indices are 0-based as in the source; Item(s, i) reads s[i].       *)
(***************************************************************************)
EXTENDS Integers, Sequences, FiniteSets, TLC

None == 99999999

\* ------------------------------------------------------------ bounds
MaxLaps == 3
MaxSteps == 2
MaxSamples == 4
MaxZones == 3
MaxVendorMsgs == 2
MaxMinutes == 4400

MaxHrSamples == 3

MaxTriggers == 2

MaxLoopRuns == 2

\* ------------------------------------------------- program constants
\* abs(lap_duration - step_duration) < 10 (seconds), in tenths of a second
MatchTolerance == 100
\* float(dur_s) < 30 (seconds), in tenths of a second
ShortLap == 300
\* range(max(0, seq_idx - 5), min(len(step_sequence), seq_idx + 5))
WindowRadius == 5
\* step.get("repeat_steps", 2)
DefaultRepeatSteps == 2

\* ------------------------------------------------------- list helpers
Item(s, i) == s[i + 1]

Max2(a, b) == IF a >= b THEN a ELSE b

Min2(a, b) == IF a <= b THEN a ELSE b

Abs(x) == IF x < 0 THEN -x ELSE x

SeqsUpTo(S, n) == UNION {[1..k -> S] : k \in 0..n}

\* round(n / d) to the nearest integer, ties to even (Python's round)
RoundDiv(n, d) ==
    LET q == n \div d
        r == n % d
    IN  IF 2 * r < d THEN q
        ELSE IF 2 * r > d THEN q + 1
        ELSE IF q % 2 = 0 THEN q ELSE q + 1

\* ------------------------------------------------------------- state
VARIABLES
    laps,           \* extract_laps(ff)
    steps,          \* extract_workout_steps(ff)
    records,        \* extract_records(ff)
    pc,             \* position inside build_blocks_from_fit
    error,          \* the exception that ended the run, "none" when none did
    step_sequence,  \* flattened plan: ("step", i) / ("repeat", block)
    lap_to_step,    \* list of step indices, one appended per matched lap
    seq_idx,        \* the matcher's cursor into step_sequence
    lap_idx,        \* loop index of the matching walk and of the block loop
    blocks,         \* dict key -> BlockStats
    block_keys,     \* insertion order of the dict blocks
    block_laps,     \* dict key -> index of the lap stored under the key
    skipped,        \* lap indices for which the block loop executed continue
    summary,        \* the returned summary (its "blocks"), once returned
    \* compute_power_band_stats
    arg_records,  \* argument: the block's records
    arg_min_w,   \* argument: lower bound of the band
    arg_max_w,   \* argument: upper bound of the band
    band_stats,     \* <<>> before the call, <<result>> after it
    \* extract_hr_zones
    hr_zone_msgs,   \* high_bpm of each hr_zone message (None when absent)
    unknown_216,    \* unknown_6 of each unknown_216 message
    arg_lthr_bpm,       \* argument lthr_bpm
    zones_called,   \* whether extract_hr_zones has returned
    hr_zone_def,    \* its result: <<>> is None, <<d>> the dict d
    \* extract_records
    record_msgs,    \* the record messages of the file, in file order
    records_called, \* whether extract_records has returned
    extracted,      \* the list it returned
    \* vendor decoding inside build_blocks_from_fit
    unknown_140,    \* unknown_7 / unknown_9 of each unknown_140 message
    unknown_13,     \* unknown_13 of each unknown_216 message
    vendor_summary, \* <<>> before the decoding, then <<the summary's vendor fields>>
    \* HR drift of one block (lines 1130-1133, compute_hr_drift_pct)
    drift_type,     \* b.type
    drift_duration_min, \* b.duration_min in tenths of a minute
    drift_recs,     \* recs, the block's records
    hr_drift_pct,   \* <<>> before the step, then <<v>>; v in hundredths of a percent
    drift_lap,      \* block_laps[name], the lap the block was built from
    hr_first5s_to_last5s_delta, \* <<>> before the step, then <<v>>; v in tenths of a bpm
    \* a call of extract_power_target
    target_step,    \* step
    power_target,   \* <<>> before the call, then <<the returned pair>>
    \* a call of compute_zone_distribution (lines 1126-1128)
    dist_records,   \* records: each a heart rate, None when absent
    dist_zone_def,  \* zone_def: <<>> is None, <<d>> the definition d
    hr_zones,       \* <<>> before the call, then <<result>>; the result <<>> is None
    \* the calls of records_for_lap, one per lap (line 1077)
    rl_laps,        \* the laps
    rl_records,     \* records, sorted by timestamp
    in_lap,         \* <<>> before the calls, then the list returned for each lap
    \* the scheduler (src/runcoach/scheduler.py) and the pipeline lock
    running,        \* Scheduler._running, read by is_syncing
    pipeline_lock,  \* _pipeline_lock: the set of threads that hold it, {} when free
    thread_pc,      \* where each thread stands; thread 0 runs Scheduler._loop
    loop_runs       \* the calls of _run_once the loop thread has begun

pipeVars == <<laps, steps, records, pc, error, step_sequence, lap_to_step,
              seq_idx, lap_idx, blocks, block_keys, block_laps, skipped, summary>>

bandVars == <<arg_records, arg_min_w, arg_max_w, band_stats>>

zoneVars == <<hr_zone_msgs, unknown_216, arg_lthr_bpm, zones_called, hr_zone_def>>

\* everything outside build_blocks_from_fit's own run
recVars == <<record_msgs, records_called, extracted>>

vendorVars == <<unknown_140, unknown_13, vendor_summary>>

driftVars == <<drift_type, drift_duration_min, drift_recs, hr_drift_pct, drift_lap,
               hr_first5s_to_last5s_delta>>

targetVars == <<target_step, power_target>>

distVars == <<dist_records, dist_zone_def, hr_zones>>

lapRecVars == <<rl_laps, rl_records, in_lap>>

schedVars == <<running, pipeline_lock, thread_pc, loop_runs>>

helperVars == <<bandVars, zoneVars, recVars, vendorVars, driftVars, targetVars,
                distVars, lapRecVars, schedVars>>

vars == <<pipeVars, bandVars, zoneVars, recVars, vendorVars, driftVars, targetVars,
          distVars, lapRecVars, schedVars>>

\* ------------------------------------------------------ input records
\* A lap message: start_time and total_timer_time (None when the field is
\* missing from the message).
Lap(start, dur) == [start_time |-> start, total_timer_time |-> dur]

\* A workout_step message.  step_name is the set of keyword classes that
\* str(step_name).lower() contains: "warm" (warm / wu), "cool" (cool / cd),
\* "rest" (rest / recover).  duration_time is 0 when the field is missing.
Step(dtype, dur, intensity, name, ttype, plow, phigh, vlow, vhigh, rsteps, dstep) ==
    [duration_type |-> dtype, duration_time |-> dur, intensity |-> intensity,
     step_name |-> name, target_type |-> ttype,
     custom_target_power_low |-> plow, custom_target_power_high |-> phigh,
     custom_target_value_low |-> vlow, custom_target_value_high |-> vhigh,
     repeat_steps |-> rsteps, duration_step |-> dstep]

\* steps[step_idx] if step_idx < len(steps) else {}
EmptyStep == Step("none", 0, "none", {}, "none", None, None, None, None, None, None)

\* A normalized record: timestamp and power in watts (None when absent).
Sample(ts, power) == [timestamp |-> ts, power |-> power]

\* ----------------------------------------------- plan flattening (804-835)
IsRepeat(step) == step.duration_type = "repeat"

RepeatBlockStart(step, i) ==
    IF step.duration_step # None
    THEN step.duration_step
    ELSE Max2(0, i - (IF step.repeat_steps = None THEN DefaultRepeatSteps
                      ELSE step.repeat_steps))

\* list(range(a, b))
Range(a, b) == [k \in 1..Max2(0, b - a) |-> a + k - 1]

SeqItem(stps, i) ==
    IF IsRepeat(Item(stps, i))
    THEN [type |-> "repeat", data |-> None,
          block |-> Range(RepeatBlockStart(Item(stps, i), i), i)]
    ELSE [type |-> "step", data |-> i, block |-> <<>>]

FlattenSteps(stps) == [k \in 1..Len(stps) |-> SeqItem(stps, k - 1)]

\* ------------------------------------------------- matching walk (842-898)
\* lap.get("total_timer_time", 0)
LapDuration(lap) == IF lap.total_timer_time = None THEN 0 ELSE lap.total_timer_time

\* step.get("duration_time", 0)
StepDuration(step) == step.duration_time

SetMin(S) == CHOOSE x \in S : \A y \in S : x <= y

\* mutant: a difference of exactly the tolerance still matches
Within_Inclusive(lap_duration, step_duration) ==
    Abs(lap_duration - step_duration) <= MatchTolerance

\* abs(lap_duration - step_duration) < 10 (lines 870, 890)
Within(lap_duration, step_duration) ==
    Abs(lap_duration - step_duration) < MatchTolerance

\* mutant: the mismatch search looks only from the cursor onwards
WindowHits_ForwardOnly(seq, stps, cur, lap_duration) ==
    {c \in cur..(Min2(Len(seq), cur + WindowRadius) - 1) :
        /\ Item(seq, c).type = "step"
        /\ Within(lap_duration, StepDuration(Item(stps, Item(seq, c).data)))}

\* the positions the mismatch search visits whose step is within tolerance
WindowHits(seq, stps, cur, lap_duration) ==
    {c \in Max2(0, cur - WindowRadius)..(Min2(Len(seq), cur + WindowRadius) - 1) :
        /\ Item(seq, c).type = "step"
        /\ Within(lap_duration, StepDuration(Item(stps, Item(seq, c).data)))}

\* mutant: the cursor advances after every match
AdvanceOnMatch_Always(seq, cur) == cur + 1

\* mutant: before a repeat marker the cursor returns to the start of the
\* range the marker carries
AdvanceOnMatch_ReplaysBlock(seq, cur) ==
    IF cur + 1 < Len(seq)
    THEN IF Item(seq, cur + 1).type # "repeat" THEN cur + 1
         ELSE IF Item(seq, cur + 1).block # <<>> THEN Item(seq, cur + 1).block[1]
         ELSE cur
    ELSE cur + 1

\* cursor after a lap matched the step at position cur (874-882)
AdvanceOnMatch(seq, cur) ==
    IF cur + 1 < Len(seq)
    THEN IF Item(seq, cur + 1).type # "repeat" THEN cur + 1 ELSE cur
    ELSE cur + 1

\* mutant: a surplus lap takes the first plan step
SurplusStep_FirstStep(l2s, stps) == 0

\* the step of a lap that finds the sequence exhausted (848-851)
SurplusStep(l2s, stps) == IF l2s # <<>> THEN l2s[Len(l2s)] ELSE Len(stps) - 1

\* mutant: a mismatching lap moves the cursor on by one entry
CursorAfterMismatch_Advances(cur, hits) == cur + 1

\* mutant: the cursor jumps to the position the window search found
CursorAfterMismatch_Jumps(cur, hits) == IF hits # {} THEN SetMin(hits) ELSE cur

\* the mismatch branch never assigns seq_idx (883-898)
CursorAfterMismatch(cur, hits) == cur

\* one iteration of the loop over laps: the new lap_to_step and seq_idx
WalkOne(seq, stps, l2s, cur, lap_duration) ==
    IF cur >= Len(seq)
    THEN [lap_to_step |-> Append(l2s, SurplusStep(l2s, stps)),
          seq_idx |-> cur]
    ELSE
      LET onRepeat == Item(seq, cur).type = "repeat"
          cur1 == IF onRepeat THEN cur + 1 ELSE cur
          item == IF onRepeat /\ cur1 < Len(seq) THEN Item(seq, cur1)
                  ELSE Item(seq, cur)
      IN  IF item.type = "step"
          THEN IF Within(lap_duration, StepDuration(Item(stps, item.data)))
               THEN [lap_to_step |-> Append(l2s, item.data),
                     seq_idx |-> AdvanceOnMatch(seq, cur1)]
               ELSE LET hits == WindowHits(seq, stps, cur1, lap_duration)
                    IN  [lap_to_step |->
                            Append(l2s, IF hits # {}
                                        THEN Item(seq, SetMin(hits)).data
                                        ELSE item.data),
                         seq_idx |-> CursorAfterMismatch(cur1, hits)]
          ELSE [lap_to_step |-> l2s, seq_idx |-> cur1]

\* ------------------------------------------ cool-down post-pass (900-921)
RECURSIVE LastRealLap(_, _)
LastRealLap(lps, k) ==
    IF k > 0
    THEN LET dur == Item(lps, k).total_timer_time
         IN  IF dur # None /\ dur # 0 /\ dur >= ShortLap THEN k
             ELSE LastRealLap(lps, k - 1)
    ELSE k

PostPassApplies(seq, stps) ==
    /\ Len(seq) > 1
    /\ seq[Len(seq)].type = "step"
    /\ Item(stps, seq[Len(seq)].data).intensity = "cooldown"

PostPassResult(seq, stps, lps, l2s) ==
    IF PostPassApplies(seq, stps)
    THEN LET k == LastRealLap(lps, Len(lps) - 1)
         IN  IF k < Len(l2s)
             THEN [l2s EXCEPT ![k + 1] = seq[Len(seq)].data]
             ELSE l2s
    ELSE l2s

\* --------------------------------------------- classify_block_type (464-493)
classify_block_type(step, lap_index, total_laps) ==
    IF "warm" \in step.step_name \/ step.intensity = "warmup" THEN "warmup"
    ELSE IF "cool" \in step.step_name \/ step.intensity = "cooldown" THEN "cooldown"
    ELSE IF "rest" \in step.step_name \/ step.intensity \in {"recovery", "rest"}
         THEN "float"
    ELSE IF lap_index = 0 THEN "warmup"
    ELSE IF lap_index = total_laps - 1 THEN "cooldown"
    ELSE "work"

\* -------------------------------------------- extract_power_target (496-539)
\* The band <<low, high>> in hundredths of a watt, <<None, None>> when absent.
extract_power_target(step) ==
    LET both == step.custom_target_power_low # None
                /\ step.custom_target_power_high # None
        low  == IF both THEN step.custom_target_power_low
                ELSE step.custom_target_value_low
        high == IF both THEN step.custom_target_power_high
                ELSE step.custom_target_value_high
    IN  IF low = None \/ high = None THEN <<None, None>>
        ELSE IF step.target_type # "none" /\ step.target_type # "power"
             THEN <<None, None>>
        ELSE IF low > 1000 /\ low < 10000 THEN <<10 * low, 10 * high>>
        ELSE IF low > 10000 /\ low < 100000 THEN <<low, high>>
        ELSE <<100 * low, 100 * high>>

\* ------------------------------------------------- records_for_lap (542-558)
\* mutant: a sample exactly at the lap's end is selected too
records_for_lap_InclusiveEnd(recs, lap) ==
    IF lap.start_time = None \/ lap.total_timer_time = None THEN <<>>
    ELSE SelectSeq(recs, LAMBDA r :
            /\ lap.start_time <= r.timestamp
            /\ r.timestamp <= lap.start_time + lap.total_timer_time)

records_for_lap(recs, lap) ==
    IF lap.start_time = None \/ lap.total_timer_time = None THEN <<>>
    ELSE SelectSeq(recs, LAMBDA r :
            /\ lap.start_time <= r.timestamp
            /\ r.timestamp < lap.start_time + lap.total_timer_time)

\* ---------------------------------------- compute_power_band_stats (561-595)
\* mutant: a sample exactly on the upper bound counts as above
BandClass_ExclusiveMax(p, target_min_w, target_max_w) ==
    IF 100 * p < target_min_w THEN "below"
    ELSE IF 100 * p >= target_max_w THEN "above"
    ELSE "in"

\* the branch of lines 580-585 a power value p (watts) takes
BandClass(p, target_min_w, target_max_w) ==
    IF 100 * p < target_min_w THEN "below"
    ELSE IF 100 * p > target_max_w THEN "above"
    ELSE "in"

\* the counters below / in_range / above after the loop over block_records
RECURSIVE BandCounts(_, _, _)
BandCounts(block_records, target_min_w, target_max_w) ==
    IF block_records = <<>> THEN [below |-> 0, in_range |-> 0, above |-> 0]
    ELSE LET n    == Len(block_records)
             rest == BandCounts(SubSeq(block_records, 1, n - 1),
                                target_min_w, target_max_w)
             p    == block_records[n].power
             c    == BandClass(p, target_min_w, target_max_w)
         IN  IF p = None THEN rest
             ELSE IF c = "below" THEN [rest EXCEPT !.below = @ + 1]
             ELSE IF c = "above" THEN [rest EXCEPT !.above = @ + 1]
             ELSE [rest EXCEPT !.in_range = @ + 1]

\* round(100.0 * count / total, 1), in tenths of a percent
Pct(count, total) == RoundDiv(1000 * count, total)

\* mutant: no valid sample yields absent percentages instead of zeros
compute_power_band_stats_NoneWhenEmpty(block_records, target_min_w, target_max_w) ==
    LET c     == BandCounts(block_records, target_min_w, target_max_w)
        total == c.below + c.in_range + c.above
    IN  IF block_records = <<>> \/ total = 0
        THEN [below |-> None, in |-> None, above |-> None]
        ELSE [below |-> Pct(c.below, total),
              in    |-> Pct(c.in_range, total),
              above |-> Pct(c.above, total)]

compute_power_band_stats(block_records, target_min_w, target_max_w) ==
    LET c     == BandCounts(block_records, target_min_w, target_max_w)
        total == c.below + c.in_range + c.above
    IN  IF block_records = <<>> \/ total = 0
        THEN [below |-> 0, in |-> 0, above |-> 0]
        ELSE [below |-> Pct(c.below, total),
              in    |-> Pct(c.in_range, total),
              above |-> Pct(c.above, total)]

\* --------------------------------------------------- block loop (923-987)
\* lap_to_step[i] if i < len(lap_to_step) else (len(steps) - 1)
StepIdxOf(l2s, stps, i) == IF i < Len(l2s) THEN Item(l2s, i) ELSE Len(stps) - 1

\* steps[step_idx] raises IndexError (line 925)
StepLookupRaises(stps, step_idx) ==
    step_idx < Len(stps) /\ step_idx < 0 - Len(stps)

\* steps[step_idx] if step_idx < len(steps) else {}, a negative index counting
\* from the end of the list
StepOf(stps, step_idx) ==
    IF step_idx < Len(stps)
    THEN IF step_idx >= 0 THEN Item(stps, step_idx)
         ELSE Item(stps, Len(stps) + step_idx)
    ELSE EmptyStep

\* mutant: a final lap of exactly 30 s is dropped too
SkipLap_Inclusive(i, total_laps, dur_s) ==
    i = total_laps - 1 /\ dur_s # None /\ dur_s <= ShortLap

\* is_last_lap and dur_s is not None and float(dur_s) < 30
SkipLap(i, total_laps, dur_s) ==
    i = total_laps - 1 /\ dur_s # None /\ dur_s < ShortLap

\* mutant: float / active keys numbered from 1
BlockKey_OneBased(block_type, i) ==
    IF block_type = "warmup" THEN "warmup"
    ELSE IF block_type = "cooldown" THEN "cooldown"
    ELSE IF block_type = "float" THEN "float_" \o ToString(i + 1)
    ELSE "active_" \o ToString(i + 1)

BlockKey(block_type, i) ==
    IF block_type = "warmup" THEN "warmup"
    ELSE IF block_type = "cooldown" THEN "cooldown"
    ELSE IF block_type = "float" THEN "float_" \o ToString(i)
    ELSE "active_" \o ToString(i)

\* the BlockStats built for lap i from its step (962-984)
MakeBlock(key, block_type, lap, step, recs) ==
    LET t    == extract_power_target(step)
        has  == t[1] # None /\ t[2] # None
        band == compute_power_band_stats(records_for_lap(recs, lap), t[1], t[2])
    IN  [name |-> key,
         type |-> block_type,
         duration_min |-> IF lap.total_timer_time = None THEN None
                          ELSE RoundDiv(lap.total_timer_time, 60),
         target_min_w |-> IF has THEN RoundDiv(t[1], 100) ELSE None,
         target_max_w |-> IF has THEN RoundDiv(t[2], 100) ELSE None,
         pct_time_below    |-> IF has THEN band.below ELSE None,
         pct_time_in_range |-> IF has THEN band.in ELSE None,
         pct_time_above    |-> IF has THEN band.above ELSE None]

\* dict assignment d[key] = value
DictSet(d, key, value) == (key :> value) @@ d

\* the key order of a dict after d[key] = value
KeysAfterSet(keys, d, key) == IF key \in DOMAIN d THEN keys ELSE Append(keys, key)

\* ---------------------------------------------- output assembly (1074-1163)
\* "target_power" of a block's output: <<>> is None, <<r>> the record r
TargetPowerOut(b) ==
    IF b.target_min_w # None /\ b.target_max_w # None
    THEN <<[min_w |-> b.target_min_w, max_w |-> b.target_max_w,
            pct_time_below |-> b.pct_time_below,
            pct_time_in_range |-> b.pct_time_in_range,
            pct_time_above |-> b.pct_time_above]>>
    ELSE <<>>

BlockOut(b) ==
    [name |-> b.name, type |-> b.type, duration_min |-> b.duration_min,
     target_power |-> TargetPowerOut(b)]

\* summary["blocks"]: one output record per key of blocks, in dict order
BlocksOut(keys, blks) == [k \in 1..Len(keys) |-> BlockOut(blks[keys[k]])]

\* ------------------------------------------------------------ inputs
\* lap durations: missing, 29.9 s, 30.0 s, 200 s, 400 s
LapDurs == {None, 299, 300, 2000, 4000}

RECURSIVE SumDur(_, _)
SumDur(durs, k) ==
    IF k = 0 THEN 0
    ELSE SumDur(durs, k - 1) + (IF durs[k] = None THEN 0 ELSE durs[k])

\* consecutive laps: each starts where the one before it ended
MkLaps(durs) == [k \in 1..Len(durs) |-> Lap(SumDur(durs, k - 1), durs[k])]

WarmStep(d)  == Step("time", d, "warmup", {}, "none", None, None, None, None, None, None)

WorkStep(d)  == Step("time", d, "active", {}, "power", 200, 220, None, None, None, None)

FloatStep(d) == Step("time", d, "rest", {}, "none", None, None, None, None, None, None)

CoolStep(d)  == Step("time", d, "cooldown", {}, "none", None, None, None, None, None, None)

RepeatStep(dstep, rsteps) ==
    Step("repeat", 0, "none", {}, "none", None, None, None, None, rsteps, dstep)

StepKinds == {WorkStep(4000), FloatStep(2000), CoolStep(3000), RepeatStep(0, 4)}

\* one series, sorted by timestamp: some laps hold no sample, some only the
\* sample without power, some a mix of powers below / in / above 200-220 W
RecordSeries ==
    { <<Sample(0, 190), Sample(100, 210), Sample(300, None), Sample(2000, 230),
        Sample(4000, 220)>> }

GeneralInputs ==
    {[laps |-> MkLaps(d), steps |-> s, records |-> r] :
        d \in SeqsUpTo(LapDurs, MaxLaps),
        s \in SeqsUpTo(StepKinds, MaxSteps),
        r \in RecordSeries}

\* Scenario A: laps of 600 s, 1200 s, 300 s against warm-up / work / cool-down
\* steps whose duration hints are within tolerance of the laps
HintOffsets == {0 - 99, 0, 99}

ScenarioARecords ==
    { <<>>,
      <<Sample(6000, None), Sample(7000, None)>>,
      <<Sample(6000, 210)>>,
      <<Sample(6000, 190), Sample(6010, 210), Sample(6020, 230)>>,
      <<Sample(5999, 100), Sample(6000, 200), Sample(7000, 220),
        Sample(17999, 221), Sample(18000, 100)>> }

ScenarioAInputs ==
    {[laps |-> MkLaps(<<6000, 12000, 3000>>),
      steps |-> <<WarmStep(6000 + a), WorkStep(12000 + b), CoolStep(3000 + c)>>,
      records |-> r] :
        a \in HintOffsets, b \in HintOffsets, c \in HintOffsets,
        r \in ScenarioARecords}

\* Scenario C: 400 s work + 200 s float, a repeat marker replaying them 4
\* times, a cool-down step; 4 work/float lap pairs and one cool-down lap
CoolLapDurs == {300, 2000, 2901, 3000, 3100, 4000, 6000}

CoolHints == {0, 2000, 3000, 6000}

ScenarioCInputs ==
    {[laps |-> MkLaps(<<4000 + a, 2000 + b, 4000 + a, 2000 + b, 4000 + a,
                        2000 + b, 4000 + a, 2000 + b, c>>),
      steps |-> <<WorkStep(4000), FloatStep(2000), RepeatStep(0, 4), CoolStep(h)>>,
      records |-> <<>>] :
        a \in HintOffsets, b \in HintOffsets, c \in CoolLapDurs, h \in CoolHints}

\* plans of eight timed steps, the hints 100 s apart or the first two hints
\* only 5 s apart; laps that match the first p steps in order, then one lap
\* whose duration lies on, just inside or just outside the tolerance around
\* one of the hints
WindowPlans ==
    { <<1000, 2000, 3000, 4000, 5000, 6000, 7000, 8000>>,
      <<1000, 1050, 3000, 4000, 5000, 6000, 7000, 8000>> }

ProbeOffsets == {0 - 100, 0 - 99, 0, 99, 100}

WindowInputs ==
    {[laps |-> MkLaps(SubSeq(plan, 1, p) \o <<plan[h] + o>>),
      steps |-> [k \in 1..Len(plan) |-> WorkStep(plan[k])],
      records |-> <<>>] :
        plan \in WindowPlans, p \in 0..6, h \in 1..8, o \in ProbeOffsets}

\* a work / float pair under a repeat marker whose back-reference and count
\* vary, then a cool-down step; more lap pairs than the count declares, and
\* laps that match no step
MarkerStarts == {None, 0, 1}

MarkerCounts == {None, 1, 2}

RepeatLapDurs ==
    { <<4000, 2000, 4000, 2000, 4000, 2000, 3000>>,
      <<4000, 2000, 300, 4000, 2000, 3000>>,
      <<4000, 2000, 300>>,
      <<2000, 4000, 300, 3000>> }

RepeatInputs ==
    {[laps |-> MkLaps(d),
      steps |-> <<WorkStep(4000), FloatStep(2000), RepeatStep(ds, rs), CoolStep(3000)>>,
      records |-> <<>>] :
        d \in RepeatLapDurs, ds \in MarkerStarts, rs \in MarkerCounts}

Inputs ==
    GeneralInputs \cup ScenarioAInputs \cup ScenarioCInputs \cup WindowInputs
        \cup RepeatInputs

\* the helper functions are not being exercised on their own
BandIdle ==
    /\ arg_records = <<>>
    /\ arg_min_w = None
    /\ arg_max_w = None
    /\ band_stats = <<>>

ZonesIdle ==
    /\ hr_zone_msgs = <<>>
    /\ unknown_216 = <<>>
    /\ arg_lthr_bpm = None
    /\ zones_called = FALSE
    /\ hr_zone_def = <<>>

RecIdle ==
    /\ record_msgs = <<>>
    /\ records_called = FALSE
    /\ extracted = <<>>

VendorIdle ==
    /\ unknown_140 = <<>>
    /\ unknown_13 = <<>>
    /\ vendor_summary = <<>>

DriftIdle ==
    /\ drift_type = "none"
    /\ drift_duration_min = None
    /\ drift_recs = <<>>
    /\ hr_drift_pct = <<>>
    /\ drift_lap = Lap(None, None)
    /\ hr_first5s_to_last5s_delta = <<>>

TargetIdle ==
    /\ target_step = EmptyStep
    /\ power_target = <<>>

DistIdle ==
    /\ dist_records = <<>>
    /\ dist_zone_def = <<>>
    /\ hr_zones = <<>>

LapRecIdle ==
    /\ rl_laps = <<>>
    /\ rl_records = <<>>
    /\ in_lap = <<>>

\* thread 0 is the scheduler's loop thread, the others are the threads that
\* trigger_now starts
Threads == 0..MaxTriggers

\* Scheduler.__init__ (17-22): no thread started, _running False, lock free
SchedIdle ==
    /\ running = FALSE
    /\ pipeline_lock = {}
    /\ thread_pc = [t \in Threads |-> "unstarted"]
    /\ loop_runs = 0

\* every helper except the one named g is idle (the vendor decoding calls
\* extract_hr_zones)
HelpersIdleExcept(g) ==
    /\ IF g = "band" THEN TRUE ELSE BandIdle
    /\ IF g \in {"zones", "vendor"} THEN TRUE ELSE ZonesIdle
    /\ IF g = "records" THEN TRUE ELSE RecIdle
    /\ IF g = "vendor" THEN TRUE ELSE VendorIdle
    /\ IF g = "drift" THEN TRUE ELSE DriftIdle
    /\ IF g = "target" THEN TRUE ELSE TargetIdle
    /\ IF g = "dist" THEN TRUE ELSE DistIdle
    /\ IF g = "laprec" THEN TRUE ELSE LapRecIdle
    /\ IF g = "sched" THEN TRUE ELSE SchedIdle

\* a call of the helper named g leaves every other helper alone
HelpersUnchangedExcept(g) ==
    /\ IF g = "band" THEN TRUE ELSE UNCHANGED bandVars
    /\ IF g \in {"zones", "vendor"} THEN TRUE ELSE UNCHANGED zoneVars
    /\ IF g = "records" THEN TRUE ELSE UNCHANGED recVars
    /\ IF g = "vendor" THEN TRUE ELSE UNCHANGED vendorVars
    /\ IF g = "drift" THEN TRUE ELSE UNCHANGED driftVars
    /\ IF g = "target" THEN TRUE ELSE UNCHANGED targetVars
    /\ IF g = "dist" THEN TRUE ELSE UNCHANGED distVars
    /\ IF g = "laprec" THEN TRUE ELSE UNCHANGED lapRecVars
    /\ IF g = "sched" THEN TRUE ELSE UNCHANGED schedVars

\* ------------------------------------------------- build_blocks_from_fit
\* mutant: the guard tests the plan steps instead of the laps
NoLaps_TestsSteps(lps) == Len(steps) = 0

\* if not laps (line 648)
NoLaps(lps) == Len(lps) = 0

Init ==
    /\ \E inp \in Inputs :
          /\ laps = inp.laps
          /\ steps = inp.steps
          /\ records = inp.records
    /\ pc = "start"
    /\ error = "none"
    /\ step_sequence = <<>>
    /\ lap_to_step = <<>>
    /\ seq_idx = 0
    /\ lap_idx = 0
    /\ blocks = <<>>
    /\ block_keys = <<>>
    /\ block_laps = <<>>
    /\ skipped = {}
    /\ summary = [returned |-> FALSE, blocks |-> <<>>]
    /\ HelpersIdleExcept("none")

\* raise RuntimeError("No laps found in FIT ...") (648-649)
RaiseNoLaps ==
    /\ pc = "start"
    /\ NoLaps(laps)
    /\ pc' = "raised"
    /\ error' = "RuntimeError"
    /\ UNCHANGED <<laps, steps, records, step_sequence, lap_to_step, seq_idx,
                   lap_idx, blocks, block_keys, block_laps, skipped, summary>>
    /\ UNCHANGED helperVars

\* the plan is flattened into step_sequence (796-840)
Flatten ==
    /\ pc = "start"
    /\ ~NoLaps(laps)
    /\ step_sequence' = FlattenSteps(steps)
    /\ lap_to_step' = <<>>
    /\ seq_idx' = 0
    /\ lap_idx' = 0
    /\ pc' = "walk"
    /\ UNCHANGED <<laps, steps, records, error, blocks, block_keys, block_laps,
                   skipped, summary>>
    /\ UNCHANGED helperVars

\* one iteration of for lap_idx in range(len(laps)) (842-898)
WalkLap ==
    /\ pc = "walk"
    /\ lap_idx < Len(laps)
    /\ LET w == WalkOne(step_sequence, steps, lap_to_step, seq_idx,
                        LapDuration(Item(laps, lap_idx)))
       IN  /\ lap_to_step' = w.lap_to_step
           /\ seq_idx' = w.seq_idx
    /\ lap_idx' = lap_idx + 1
    /\ UNCHANGED <<laps, steps, records, pc, error, step_sequence, blocks,
                   block_keys, block_laps, skipped, summary>>
    /\ UNCHANGED helperVars

\* the cool-down correction after the walk (900-921)
PostPass ==
    /\ pc = "walk"
    /\ lap_idx = Len(laps)
    /\ lap_to_step' = PostPassResult(step_sequence, steps, laps, lap_to_step)
    /\ lap_idx' = 0
    /\ pc' = "blocks"
    /\ UNCHANGED <<laps, steps, records, error, step_sequence, seq_idx, blocks,
                   block_keys, block_laps, skipped, summary>>
    /\ UNCHANGED helperVars

\* steps[step_idx] raises IndexError inside the block loop (925)
RaiseIndexError ==
    /\ pc = "blocks"
    /\ lap_idx < Len(laps)
    /\ StepLookupRaises(steps, StepIdxOf(lap_to_step, steps, lap_idx))
    /\ pc' = "raised"
    /\ error' = "IndexError"
    /\ UNCHANGED <<laps, steps, records, step_sequence, lap_to_step, seq_idx,
                   lap_idx, blocks, block_keys, block_laps, skipped, summary>>
    /\ UNCHANGED helperVars

\* one iteration of for i, lap in enumerate(laps) (923-987)
BuildBlock ==
    /\ pc = "blocks"
    /\ lap_idx < Len(laps)
    /\ ~StepLookupRaises(steps, StepIdxOf(lap_to_step, steps, lap_idx))
    /\ LET lap  == Item(laps, lap_idx)
           step == StepOf(steps, StepIdxOf(lap_to_step, steps, lap_idx))
           block_type == classify_block_type(step, lap_idx, Len(laps))
           key  == BlockKey(block_type, lap_idx)
       IN  IF SkipLap(lap_idx, Len(laps), lap.total_timer_time)
           THEN /\ skipped' = skipped \cup {lap_idx}
                /\ UNCHANGED <<blocks, block_keys, block_laps>>
           ELSE /\ blocks' = DictSet(blocks, key,
                                     MakeBlock(key, block_type, lap, step, records))
                /\ block_keys' = KeysAfterSet(block_keys, blocks, key)
                /\ block_laps' = DictSet(block_laps, key, lap_idx)
                /\ UNCHANGED skipped
    /\ lap_idx' = lap_idx + 1
    /\ UNCHANGED <<laps, steps, records, pc, error, step_sequence, lap_to_step,
                   seq_idx, summary>>
    /\ UNCHANGED helperVars

\* the summary is assembled and returned (989-1203)
Assemble ==
    /\ pc = "blocks"
    /\ lap_idx = Len(laps)
    /\ summary' = [returned |-> TRUE, blocks |-> BlocksOut(block_keys, blocks)]
    /\ pc' = "done"
    /\ UNCHANGED <<laps, steps, records, error, step_sequence, lap_to_step,
                   seq_idx, lap_idx, blocks, block_keys, block_laps, skipped>>
    /\ UNCHANGED helperVars

Next ==
    \/ RaiseNoLaps
    \/ Flatten
    \/ WalkLap
    \/ PostPass
    \/ RaiseIndexError
    \/ BuildBlock
    \/ Assemble

Spec == Init /\ [][Next]_vars

\* build_blocks_from_fit is not running
PipeIdle ==
    /\ laps = <<>>
    /\ steps = <<>>
    /\ records = <<>>
    /\ pc = "idle"
    /\ error = "none"
    /\ step_sequence = <<>>
    /\ lap_to_step = <<>>
    /\ seq_idx = 0
    /\ lap_idx = 0
    /\ blocks = <<>>
    /\ block_keys = <<>>
    /\ block_laps = <<>>
    /\ skipped = {}
    /\ summary = [returned |-> FALSE, blocks |-> <<>>]

\* ------------------------------- compute_power_band_stats on its own
\* power values of a block's records: absent, and values around 200-220 W
BandPowers == {None, 199, 200, 210, 220, 221}

BandSamples == {Sample(0, p) : p \in BandPowers}

\* bands <<min, max>> in hundredths of a watt: 200-220 W, the single value
\* 210 W, 200.5-219.5 W, and the inverted band 220-200 W
Bands == {<<20000, 22000>>, <<21000, 21000>>, <<20050, 21950>>, <<22000, 20000>>}

InitBand ==
    /\ PipeIdle
    /\ HelpersIdleExcept("band")
    /\ arg_records \in SeqsUpTo(BandSamples, MaxSamples)
    /\ \E b \in Bands : arg_min_w = b[1] /\ arg_max_w = b[2]
    /\ band_stats = <<>>

\* band_stats = compute_power_band_stats(recs, tmin, tmax)
CallBandStats ==
    /\ band_stats = <<>>
    /\ band_stats' = <<compute_power_band_stats(arg_records, arg_min_w, arg_max_w)>>
    /\ UNCHANGED <<arg_records, arg_min_w, arg_max_w>>
    /\ UNCHANGED pipeVars
    /\ HelpersUnchangedExcept("band")

NextBand == CallBandStats

SpecBand == InitBand /\ [][NextBand]_vars

\* ---------------------------------------- extract_hr_zones (204-265)
\* an unknown_216 message: whether it has a list/tuple unknown_6, and the tuple
Msg216(has, tuple) == [has_unknown_6 |-> has, unknown_6 |-> tuple]

\* zones_raw after the loop over the hr_zone messages (213-222)
HrZoneHighs(msgs) == SelectSeq(msgs, LAMBDA high : high # None)

\* zones_raw after the loop over the unknown_216 messages (226-235): the
\* first non-empty tuple
FirstTuple(u216) ==
    LET hits == {k \in 1..Len(u216) :
                    u216[k].has_unknown_6 /\ u216[k].unknown_6 # <<>>}
    IN  IF hits = {} THEN <<>> ELSE u216[SetMin(hits)].unknown_6

ZonesRaw(msgs, u216) ==
    IF HrZoneHighs(msgs) # <<>> THEN HrZoneHighs(msgs) ELSE FirstTuple(u216)

\* s with x inserted before the first element greater than x
RECURSIVE InsertSorted(_, _)
InsertSorted(s, x) ==
    IF s = <<>> THEN <<x>>
    ELSE IF s[Len(s)] <= x THEN Append(s, x)
    ELSE Append(InsertSorted(SubSeq(s, 1, Len(s) - 1), x), s[Len(s)])

\* mutant: the boundaries are used in the order given
SortAsc_Unsorted(s) == s

\* zones_raw.sort()
RECURSIVE SortAsc(_)
SortAsc(s) ==
    IF s = <<>> THEN <<>>
    ELSE InsertSorted(SortAsc(SubSeq(s, 1, Len(s) - 1)), s[Len(s)])

\* the loop of lines 245-252 from position i on, min_bpm carried along
RECURSIVE BuildZones(_, _, _)
BuildZones(zones_raw, i, min_bpm) ==
    IF i >= Len(zones_raw) THEN <<>>
    ELSE <<[label |-> "Z" \o ToString(i + 1),
            min_bpm |-> min_bpm,
            max_bpm |-> Item(zones_raw, i)]>>
         \o BuildZones(zones_raw, i + 1, Item(zones_raw, i) + 1)

\* the result: <<>> is None, <<d>> the dict d; a None among the boundaries
\* raises TypeError (in sort or in high_bpm + 1), caught at line 264
extract_hr_zones(msgs, u216, lthr) ==
    LET zones_raw == ZonesRaw(msgs, u216)
    IN  IF zones_raw = <<>> THEN <<>>
        ELSE IF \E k \in 1..Len(zones_raw) : zones_raw[k] = None THEN <<>>
        ELSE <<[source |-> "garmin",
                system |-> "Garmin_" \o ToString(Len(zones_raw)) \o "_zone",
                zones |-> BuildZones(SortAsc(zones_raw), 0, 0),
                lthr_bpm |-> lthr]>>

\* inputs
StdHighs == {None, 100, 120}

TupleBpm == {None, 91, 134, 151}

Msgs216 ==
    {Msg216(FALSE, <<>>)} \cup {Msg216(TRUE, t) : t \in SeqsUpTo(TupleBpm, MaxZones)}

Unknown216Inputs ==
    {<<>>} \cup {<<m>> : m \in Msgs216}
           \cup {<<e, m>> : e \in {Msg216(FALSE, <<>>), Msg216(TRUE, <<>>),
                                   Msg216(TRUE, <<151, 91>>)},
                            m \in Msgs216}

InitZones ==
    /\ PipeIdle
    /\ HelpersIdleExcept("zones")
    /\ hr_zone_msgs \in SeqsUpTo(StdHighs, MaxZones)
    /\ unknown_216 \in Unknown216Inputs
    /\ arg_lthr_bpm \in {None, 174}
    /\ zones_called = FALSE
    /\ hr_zone_def = <<>>

\* hr_zone_definition = extract_hr_zones(ff, lthr_bpm=lthr)
CallExtractHrZones ==
    /\ ~zones_called
    /\ zones_called' = TRUE
    /\ hr_zone_def' = extract_hr_zones(hr_zone_msgs, unknown_216, arg_lthr_bpm)
    /\ UNCHANGED <<hr_zone_msgs, unknown_216, arg_lthr_bpm>>
    /\ UNCHANGED pipeVars
    /\ HelpersUnchangedExcept("zones")

NextZones == CallExtractHrZones

SpecZones == InitZones /\ [][NextZones]_vars

\* ------------------------------------------ extract_records (98-201)
\* a record message: its timestamp, Power and heart_rate fields
RecordMsg(ts, power, hr) == [timestamp |-> ts, Power |-> power, heart_rate |-> hr]

\* the dict appended for a message that has a timestamp (184-198)
RecordOf(msg) ==
    [timestamp |-> msg.timestamp, power |-> msg.Power, heart_rate |-> msg.heart_rate]

\* the list before the sort: messages without timestamp are dropped (112-114)
RECURSIVE AppendedRecords(_)
AppendedRecords(msgs) ==
    IF msgs = <<>> THEN <<>>
    ELSE LET rest == AppendedRecords(SubSeq(msgs, 1, Len(msgs) - 1))
             msg  == msgs[Len(msgs)]
         IN  IF msg.timestamp = None THEN rest ELSE Append(rest, RecordOf(msg))

\* s with r inserted after the last element whose timestamp is not greater
RECURSIVE InsertByTimestamp(_, _)
InsertByTimestamp(s, r) ==
    IF s = <<>> THEN <<r>>
    ELSE IF s[Len(s)].timestamp <= r.timestamp THEN Append(s, r)
    ELSE Append(InsertByTimestamp(SubSeq(s, 1, Len(s) - 1), r), s[Len(s)])

\* mutant: the list is returned in file order
SortByTimestamp_FileOrder(s) == s

\* records.sort(key=lambda x: x["timestamp"]) (line 200), a stable sort
RECURSIVE SortByTimestamp(_)
SortByTimestamp(s) ==
    IF s = <<>> THEN <<>>
    ELSE InsertByTimestamp(SortByTimestamp(SubSeq(s, 1, Len(s) - 1)), s[Len(s)])

extract_records(msgs) == SortByTimestamp(AppendedRecords(msgs))

\* inputs: timestamps absent or 0 s, 1 s, 2 s; two distinguishable payloads
RecordMsgs ==
    {RecordMsg(ts, pw[1], pw[2]) :
        ts \in {None, 0, 10, 20}, pw \in {<<None, 120>>, <<200, 150>>}}

InitRecords ==
    /\ PipeIdle
    /\ HelpersIdleExcept("records")
    /\ record_msgs \in SeqsUpTo(RecordMsgs, MaxSamples)
    /\ records_called = FALSE
    /\ extracted = <<>>

\* records = extract_records(ff)
CallExtractRecords ==
    /\ ~records_called
    /\ records_called' = TRUE
    /\ extracted' = extract_records(record_msgs)
    /\ UNCHANGED record_msgs
    /\ UNCHANGED pipeVars
    /\ HelpersUnchangedExcept("records")

NextRecords == CallExtractRecords

SpecRecords == InitRecords /\ [][NextRecords]_vars

\* ------------------------------------------ vendor decoding (713-780)
\* a field value on which float() / int() raises
Undecodable == 99999998

Msg140(u7, u9) == [unknown_7 |-> u7, unknown_9 |-> u9]

\* vo2_max = float(raw) * 3.5 / 65536.0, in hundredths (100 * 3.5 / 65536 =
\* 175 / 32768)
Vo2Of(raw) == RoundDiv(175 * raw, 32768)

\* the value a variable holds after a field with value raw was seen (718-731)
AfterField(old, raw, decoded) ==
    IF raw = None THEN old
    ELSE IF raw = Undecodable THEN None
    ELSE decoded

\* the loop over the unknown_140 messages from message k on (715-733)
RECURSIVE DecodeUnknown140(_, _, _, _)
DecodeUnknown140(msgs, k, vo2_max, recovery_time_min) ==
    IF k > Len(msgs) THEN <<vo2_max, recovery_time_min>>
    ELSE LET raw7 == msgs[k].unknown_7
             raw9 == msgs[k].unknown_9
             vo2  == AfterField(vo2_max, raw7, Vo2Of(raw7))
             rec  == AfterField(recovery_time_min, raw9, raw9)
         IN  IF vo2 # None /\ rec # None THEN <<vo2, rec>>
             ELSE DecodeUnknown140(msgs, k + 1, vo2, rec)

\* the loop over the unknown_216 messages from message k on (745-757)
RECURSIVE DecodeLthr(_, _)
DecodeLthr(u13, k) ==
    IF k > Len(u13) THEN None
    ELSE IF u13[k] # None /\ u13[k] # Undecodable THEN u13[k]
    ELSE DecodeLthr(u13, k + 1)

\* mutant: minutes are not padded to two digits
FormatMinutesReadable_Unpadded(mins) ==
    IF mins = None THEN "none"
    ELSE LET days    == mins \div 1440
             rem     == mins % 1440
             hours   == rem \div 60
             minutes == rem % 60
             hm      == ToString(hours) \o ":" \o ToString(minutes)
         IN  IF days > 0 THEN ToString(days) \o "d " \o hm ELSE hm

\* _format_minutes_readable (765-778); "none" is None
FormatMinutesReadable(mins) ==
    IF mins = None THEN "none"
    ELSE LET days    == mins \div 1440
             rem     == mins % 1440
             hours   == rem \div 60
             minutes == rem % 60
             hm      == ToString(hours) \o ":"
                        \o (IF minutes < 10 THEN "0" ELSE "") \o ToString(minutes)
         IN  IF days > 0 THEN ToString(days) \o "d " \o hm ELSE hm

\* inputs: raw values absent, undecodable or a number
Msgs140 == {Msg140(u7, u9) : u7 \in {None, Undecodable, 936228},
                             u9 \in {None, Undecodable, 600}}

\* one unknown_216 message: <<unknown_13, unknown_6 message part>>
Pairs216 ==
    {<<u13, m>> : u13 \in {None, Undecodable, 174},
                  m \in {Msg216(FALSE, <<>>), Msg216(TRUE, <<151, 91>>)}}

\* sequences of vendor messages of any kind
VendorGeneral ==
    {[u140 |-> a, u216 |-> b] : a \in SeqsUpTo(Msgs140, MaxVendorMsgs),
                                b \in SeqsUpTo(Pairs216, MaxVendorMsgs)}

\* a single message carrying a recovery time of 0..MaxMinutes minutes
VendorRecovery ==
    {[u140 |-> <<Msg140(None, mins)>>, u216 |-> <<>>] : mins \in 0..MaxMinutes}

InitVendor ==
    /\ PipeIdle
    /\ HelpersIdleExcept("vendor")
    /\ \E inp \in VendorGeneral \cup VendorRecovery :
          /\ unknown_140 = inp.u140
          /\ unknown_13 = [k \in 1..Len(inp.u216) |-> inp.u216[k][1]]
          /\ unknown_216 = [k \in 1..Len(inp.u216) |-> inp.u216[k][2]]
    /\ hr_zone_msgs = <<>>
    /\ arg_lthr_bpm = None
    /\ zones_called = FALSE
    /\ hr_zone_def = <<>>
    /\ vendor_summary = <<>>

\* lines 713-780 and the summary fields they feed (999, 1018-1026)
DecodeVendor ==
    /\ vendor_summary = <<>>
    /\ LET vr   == DecodeUnknown140(unknown_140, 1, None, None)
           lthr == DecodeLthr(unknown_13, 1)
       IN  /\ arg_lthr_bpm' = lthr
           /\ zones_called' = TRUE
           /\ hr_zone_def' = extract_hr_zones(hr_zone_msgs, unknown_216, lthr)
           /\ vendor_summary' =
                 <<[vo2_max |-> vr[1],
                    recovery_time_min |-> vr[2],
                    recovery_time_readable |-> FormatMinutesReadable(vr[2]),
                    lthr |-> lthr,
                    hr_zone_definition |->
                        extract_hr_zones(hr_zone_msgs, unknown_216, lthr)]>>
    /\ UNCHANGED <<unknown_140, unknown_13, hr_zone_msgs, unknown_216>>
    /\ UNCHANGED pipeVars
    /\ HelpersUnchangedExcept("vendor")

NextVendor == DecodeVendor

SpecVendor == InitVendor /\ [][NextVendor]_vars

\* ------------------------------------- compute_hr_drift_pct (331-398)
HrSample(ts, hr) == [timestamp |-> ts, heart_rate |-> hr]

\* records with a timestamp and a positive heart rate (347-352)
ValidHr(block_records) ==
    SelectSeq(block_records,
              LAMBDA r : r.timestamp # None /\ r.heart_rate # None /\ r.heart_rate > 0)

\* sum of the heart rates of recs[lo..hi], by halving the range
RECURSIVE SumHr(_, _, _)
SumHr(recs, lo, hi) ==
    IF hi < lo THEN 0
    ELSE IF hi = lo THEN recs[lo].heart_rate
    ELSE LET mid == (lo + hi) \div 2
         IN  SumHr(recs, lo, mid) + SumHr(recs, mid + 1, hi)

\* valid_records.sort(key=lambda x: x["timestamp"]) (line 358); a list
\* already in order is left as it is
SortValidRecords(s) ==
    IF \A k \in 1..(Len(s) - 1) : s[k].timestamp <= s[k + 1].timestamp
    THEN s ELSE SortByTimestamp(s)

RECURSIVE GCD(_, _)
GCD(a, b) == IF b = 0 THEN a ELSE GCD(b, a % b)

\* mutant: the halves are exchanged
DriftOf_FirstOverSecond(s1, c1, s2, c2) ==
    LET g == GCD(c1, c2)
    IN  RoundDiv(10000 * (s1 * (c2 \div g) - s2 * (c1 \div g)), s2 * (c1 \div g))

\* round((hr2 / hr1 - 1.0) * 100.0, 2) in hundredths of a percent, for
\* hr1 = s1 / c1 and hr2 = s2 / c2: 10000 * (s2 * c1 - s1 * c2) / (s1 * c2),
\* the fraction reduced by gcd(c1, c2) (395-397)
DriftOf(s1, c1, s2, c2) ==
    LET g == GCD(c1, c2)
    IN  RoundDiv(10000 * (s2 * (c1 \div g) - s1 * (c2 \div g)), s1 * (c2 \div g))

\* the result: None when absent
compute_hr_drift_pct(block_records) ==
    IF block_records = <<>> THEN None
    ELSE LET unsorted == ValidHr(block_records)
         IN  IF Len(unsorted) < 20 THEN None
             ELSE
               LET valid_records == SortValidRecords(unsorted)
                   n     == Len(valid_records)
                   t0    == valid_records[1].timestamp
                   total == valid_records[n].timestamp - t0
                   \* elapsed_s <= total_duration_s / 2.0
                   firstN == Cardinality({k \in 1..n :
                                2 * (valid_records[k].timestamp - t0) <= total})
               IN  IF total < 4800 THEN None
                   ELSE IF firstN < 10 \/ n - firstN < 10 THEN None
                   ELSE DriftOf(SumHr(valid_records, 1, firstN), firstN,
                                SumHr(valid_records, firstN + 1, n), n - firstN)

\* mutant: the block type is not tested
DriftEligible_AnyType(btype, duration_min, recs) ==
    /\ recs # <<>>
    /\ duration_min # None
    /\ duration_min >= 80

\* the condition of line 1132
DriftEligible(btype, duration_min, recs) ==
    /\ recs # <<>>
    /\ duration_min # None
    /\ duration_min >= 80
    /\ btype \in {"warmup", "work", "float"}

\* ------------------------ compute_hr_first5s_to_last5s_delta (401-461)
\* round(hr_last - hr_first, 1) in tenths of a bpm, for hr_first = s1 / c1 and
\* hr_last = s2 / c2 (455-461)
DeltaOf(s1, c1, s2, c2) == RoundDiv(10 * (s2 * c1 - s1 * c2), c1 * c2)

\* the result: None when absent
compute_hr_first5s_to_last5s_delta(block_records) ==
    IF block_records = <<>> THEN None
    ELSE LET unsorted == ValidHr(block_records)
         IN  IF Len(unsorted) < 4 THEN None
             ELSE
               LET valid_records == SortValidRecords(unsorted)
                   n     == Len(valid_records)
                   t0    == valid_records[1].timestamp
                   total == valid_records[n].timestamp - t0
                   \* elapsed_s <= 5.0
                   first_5s == SelectSeq(valid_records,
                                 LAMBDA r : r.timestamp - t0 <= 50)
                   \* elapsed_s >= total_duration_s - 5.0
                   last_5s  == SelectSeq(valid_records,
                                 LAMBDA r : r.timestamp - t0 >= total - 50)
               IN  IF total < 300 THEN None
                   ELSE IF Len(first_5s) < 1 \/ Len(last_5s) < 1 THEN None
                   ELSE DeltaOf(SumHr(first_5s, 1, Len(first_5s)), Len(first_5s),
                                SumHr(last_5s, 1, Len(last_5s)), Len(last_5s))

\* the condition of line 1137: b.duration_min * 60 > 30
DeltaEligible(duration_min, recs) ==
    /\ recs # <<>>
    /\ duration_min # None
    /\ duration_min * 6 > 30

\* inputs: n samples every dt tenths of a second, heart rate a for the first
\* k samples in time and b afterwards; the sample at time 0 has no heart
\* rate when bad = 1; the list is in time order, or reversed when rev = 1
HrSeries(n, dt, a, b, k, bad, rev) ==
    [j \in 1..n |->
        LET i == IF rev = 1 THEN n + 1 - j ELSE j
        IN  HrSample((i - 1) * dt,
                     IF i = bad THEN None ELSE IF i <= k THEN a ELSE b)]

\* Scenario B: per-second samples rising linearly from 140 to 160 bpm over
\* secs seconds, the bpm truncated (up = 0) or rounded (up = 1) to an integer
RisingSeries(secs, up) ==
    [j \in 1..secs |->
        HrSample((j - 1) * 10,
                 140 + (2 * 20 * (j - 1) + up * (secs - 1)) \div (2 * (secs - 1)))]

DriftTypes == {"warmup", "work", "float", "cooldown"}

\* a block of the output loop: its type, its lap, and the recording's series;
\* duration_min is the lap's duration rounded to a tenth of a minute (line
\* 967) and recs the samples of the lap (line 1077)
BlockInput(t, dur, series) ==
    [type |-> t, lap |-> Lap(0, dur),
     duration_min |-> IF dur = None THEN None ELSE RoundDiv(dur, 60),
     recs |-> records_for_lap(series, Lap(0, dur))]

\* laps just under and over 8 minutes
DriftLapDurs == {4700, 4780, 4801, 6000}

DriftGeneral ==
    {BlockInput(t, d, HrSeries(n, dt, a, b, k, bad, 0)) :
        t \in {"work", "cooldown"}, d \in DriftLapDurs, n \in {20, 21, 300},
        dt \in {20, 250, 260}, a \in {149, 150}, b \in {150, 151},
        k \in {9, 10, 11, 299}, bad \in {0, 1}}
    \cup
    {BlockInput("float", 6000, HrSeries(n, 260, a, b, k, 0, 1)) :
        n \in {20, 21}, a \in {149, 150}, b \in {150, 151}, k \in {9, 10, 11}}

ScenarioBInputs ==
    {BlockInput(t, 12000, RisingSeries(1200, up)) : t \in DriftTypes, up \in {0, 1}}

\* laps just under and over 30 seconds, and a lap without duration
DeltaLapDurs == {None, 299, 301, 320, 331, 400}

DeltaInputs ==
    {BlockInput(t, d, HrSeries(n, dt, a, b, k, bad, rev)) :
        t \in {"work", "cooldown"}, d \in DeltaLapDurs, n \in {4, 7, 16},
        dt \in {20, 50, 100}, a \in {140, 141}, b \in {150}, k \in {1, 3},
        bad \in {0, 1}, rev \in {0}}

InitDrift ==
    /\ PipeIdle
    /\ HelpersIdleExcept("drift")
    /\ \E inp \in DriftGeneral \cup ScenarioBInputs \cup DeltaInputs :
          /\ drift_type = inp.type
          /\ drift_lap = inp.lap
          /\ drift_duration_min = inp.duration_min
          /\ drift_recs = inp.recs
    /\ hr_drift_pct = <<>>
    /\ hr_first5s_to_last5s_delta = <<>>

\* lines 1130-1138
ComputeDrift ==
    /\ hr_drift_pct = <<>>
    /\ hr_drift_pct' =
          <<IF DriftEligible(drift_type, drift_duration_min, drift_recs)
            THEN compute_hr_drift_pct(drift_recs) ELSE None>>
    /\ hr_first5s_to_last5s_delta' =
          <<IF DeltaEligible(drift_duration_min, drift_recs)
            THEN compute_hr_first5s_to_last5s_delta(drift_recs) ELSE None>>
    /\ UNCHANGED <<drift_type, drift_duration_min, drift_recs, drift_lap>>
    /\ UNCHANGED pipeVars
    /\ HelpersUnchangedExcept("drift")

NextDrift == ComputeDrift

SpecDrift == InitDrift /\ [][NextDrift]_vars

\* ------------------------------ a call of extract_power_target (496-539)
\* raw bounds around the two rescaling ranges, in watts as the file gives them
RawLows == {None, 200, 1000, 1001, 2200, 9999, 10000, 10001, 22000, 99999, 100000}

RawWidths == {0, 20, 2000}

TargetTypes == {"none", "power", "heart_rate"}

\* the band in the power fields, or in the generic value fields
TargetSteps ==
    {Step("time", 4000, "active", {}, tt,
          IF generic = 1 THEN None ELSE lo,
          IF generic = 1 \/ lo = None THEN None ELSE lo + w,
          IF generic = 1 THEN lo ELSE None,
          IF generic = 1 /\ lo # None THEN lo + w ELSE None,
          None, None) :
        tt \in TargetTypes, lo \in RawLows, w \in RawWidths, generic \in {0, 1}}

InitTarget ==
    /\ PipeIdle
    /\ HelpersIdleExcept("target")
    /\ target_step \in TargetSteps
    /\ power_target = <<>>

CallExtractPowerTarget ==
    /\ power_target = <<>>
    /\ power_target' = <<extract_power_target(target_step)>>
    /\ UNCHANGED target_step
    /\ UNCHANGED pipeVars
    /\ HelpersUnchangedExcept("target")

NextTarget == CallExtractPowerTarget

SpecTarget == InitTarget /\ [][NextTarget]_vars

\* ----------------- hr_zone_label, compute_zone_distribution (268-328)
\* mutant: a heart rate on a zone's upper bound is not in the zone
InZone_ExclusiveMax(bounds, hr_bpm) ==
    bounds.min_bpm <= hr_bpm /\ hr_bpm < bounds.max_bpm

\* bounds["min_bpm"] <= hr_bpm <= bounds["max_bpm"]
InZone(bounds, hr_bpm) ==
    bounds.min_bpm <= hr_bpm /\ hr_bpm <= bounds.max_bpm

\* the label of the first zone, in the definition's order, that holds hr_bpm;
\* "none" is None
hr_zone_label(zone_def, hr_bpm) ==
    LET hits == {k \in 1..Len(zone_def.zones) : InZone(zone_def.zones[k], hr_bpm)}
    IN  IF hits = {} THEN "none" ELSE zone_def.zones[SetMin(hits)].label

\* zone_counts[label] after the loop over the records (309-316)
ZoneCount(recs, zone_def, label) ==
    Cardinality({k \in 1..Len(recs) :
                    /\ recs[k].heart_rate # None
                    /\ recs[k].heart_rate # 0
                    /\ hr_zone_label(zone_def, recs[k].heart_rate) = label})

\* sum(zone_counts.values()) over the first n zones
RECURSIVE ZoneTotal(_, _, _)
ZoneTotal(recs, zone_def, n) ==
    IF n = 0 THEN 0
    ELSE ZoneCount(recs, zone_def, zone_def.zones[n].label)
            + ZoneTotal(recs, zone_def, n - 1)

\* the result: <<>> is None, otherwise per zone its label and percentage in
\* tenths
compute_zone_distribution(recs, zone_def) ==
    IF zone_def = <<>> THEN <<>>
    ELSE LET d     == zone_def[1]
             total == ZoneTotal(recs, d, Len(d.zones))
         IN  IF total = 0 THEN <<>>
             ELSE [k \in 1..Len(d.zones) |->
                      [label |-> d.zones[k].label,
                       pct   |-> Pct(ZoneCount(recs, d, d.zones[k].label), total)]]

\* inputs: heart rates absent, zero, inside, on the bounds of and above the
\* zones that the boundaries 120 and 150 give
DistHeartRates == {None, 0, 100, 120, 121, 150, 151}

DistZoneDefs ==
    {extract_hr_zones(highs, <<>>, None) : highs \in SeqsUpTo({120, 150}, 2)}

InitDist ==
    /\ PipeIdle
    /\ HelpersIdleExcept("dist")
    /\ dist_records \in {[k \in 1..Len(hrs) |-> HrSample(10 * k, hrs[k])] :
                            hrs \in SeqsUpTo(DistHeartRates, MaxHrSamples)}
    /\ dist_zone_def \in DistZoneDefs
    /\ hr_zones = <<>>

CallZoneDistribution ==
    /\ hr_zones = <<>>
    /\ hr_zones' = <<compute_zone_distribution(dist_records, dist_zone_def)>>
    /\ UNCHANGED <<dist_records, dist_zone_def>>
    /\ UNCHANGED pipeVars
    /\ HelpersUnchangedExcept("dist")

NextDist == CallZoneDistribution

SpecDist == InitDist /\ [][NextDist]_vars

\* --------------------------- the calls of records_for_lap (542-558, 1077)
\* the elements of the set S of numbers in ascending order
RECURSIVE Ascending(_)
Ascending(S) ==
    IF S = {} THEN <<>> ELSE <<SetMin(S)>> \o Ascending(S \ {SetMin(S)})

\* sample times around the lap boundaries 0, 10 s and 20 s
SampleTimes == {0, 50, 99, 100, 101, 199, 200, 300}

LapStarts == {None, 0, 50, 100, 200}

LapSpans == {None, 0, 100}

LapRecSeries ==
    {[k \in 1..Cardinality(S) |-> Sample(Ascending(S)[k], 200)] :
        S \in {T \in SUBSET SampleTimes : Cardinality(T) <= MaxSamples}}

LapPairs ==
    {<<Lap(s1, d1), Lap(s2, d2)>> :
        s1 \in {None, 0}, d1 \in LapSpans, s2 \in LapStarts, d2 \in LapSpans}

InitLapRec ==
    /\ PipeIdle
    /\ HelpersIdleExcept("laprec")
    /\ rl_laps \in LapPairs
    /\ rl_records \in LapRecSeries
    /\ in_lap = <<>>

CallRecordsForLap ==
    /\ in_lap = <<>>
    /\ in_lap' = [i \in 1..Len(rl_laps) |-> records_for_lap(rl_records, rl_laps[i])]
    /\ UNCHANGED <<rl_laps, rl_records>>
    /\ UNCHANGED pipeVars
    /\ HelpersUnchangedExcept("laprec")

NextLapRec == CallRecordsForLap

SpecLapRec == InitLapRec /\ [][NextLapRec]_vars

\* ------------------- Scheduler and run_full_pipeline (src/runcoach)
InitSched ==
    /\ PipeIdle
    /\ HelpersIdleExcept("sched")
    /\ SchedIdle

SchedRest == UNCHANGED pipeVars /\ HelpersUnchangedExcept("sched")

\* Scheduler.start (28-34): the loop thread starts and calls _run_once (51)
StartScheduler ==
    /\ thread_pc[0] = "unstarted"
    /\ thread_pc' = [thread_pc EXCEPT ![0] = "run_once"]
    /\ loop_runs' = 1
    /\ UNCHANGED <<running, pipeline_lock>>
    /\ SchedRest

\* Scheduler.trigger_now (45-47): a new thread that runs _run_once
TriggerNow(t) ==
    /\ t # 0
    /\ thread_pc[t] = "unstarted"
    /\ thread_pc' = [thread_pc EXCEPT ![t] = "run_once"]
    /\ UNCHANGED <<running, pipeline_lock, loop_runs>>
    /\ SchedRest

\* self._running = True (57)
SetRunning(t) ==
    /\ thread_pc[t] = "run_once"
    /\ running' = TRUE
    /\ thread_pc' = [thread_pc EXCEPT ![t] = "acquire"]
    /\ UNCHANGED <<pipeline_lock, loop_runs>>
    /\ SchedRest

\* _pipeline_lock.acquire(blocking=False) succeeds (pipeline.py 25)
AcquireLock(t) ==
    /\ thread_pc[t] = "acquire"
    /\ pipeline_lock = {}
    /\ pipeline_lock' = {t}
    /\ thread_pc' = [thread_pc EXCEPT ![t] = "sync"]
    /\ UNCHANGED <<running, loop_runs>>
    /\ SchedRest

\* the lock is taken: return {"skipped": True} (pipeline.py 25-27)
SkipRun(t) ==
    /\ thread_pc[t] = "acquire"
    /\ pipeline_lock # {}
    /\ thread_pc' = [thread_pc EXCEPT ![t] = "finally"]
    /\ UNCHANGED <<running, pipeline_lock, loop_runs>>
    /\ SchedRest

\* the stages sync, parse, analyze of the run that holds the lock
\* (pipeline.py 29-94); an exception ends the run early
PipelineStage(t) ==
    /\ thread_pc[t] \in {"sync", "parse", "analyze"}
    /\ \E next \in {IF thread_pc[t] = "sync" THEN "parse"
                     ELSE IF thread_pc[t] = "parse" THEN "analyze"
                     ELSE "release", "release"} :
          thread_pc' = [thread_pc EXCEPT ![t] = next]
    /\ UNCHANGED <<running, pipeline_lock, loop_runs>>
    /\ SchedRest

\* finally: _pipeline_lock.release() (pipeline.py 96-97)
ReleaseLock(t) ==
    /\ thread_pc[t] = "release"
    /\ pipeline_lock' = {}
    /\ thread_pc' = [thread_pc EXCEPT ![t] = "finally"]
    /\ UNCHANGED <<running, loop_runs>>
    /\ SchedRest

\* finally: self._running = False (62-63); the loop thread then waits for the
\* next interval (53), a triggered thread ends
ClearRunning(t) ==
    /\ thread_pc[t] = "finally"
    /\ running' = FALSE
    /\ thread_pc' = [thread_pc EXCEPT ![t] = IF t = 0 THEN "waiting" ELSE "ended"]
    /\ UNCHANGED <<pipeline_lock, loop_runs>>
    /\ SchedRest

\* the interval elapsed: the loop calls _run_once again (53-54)
LoopWake ==
    /\ thread_pc[0] = "waiting"
    /\ loop_runs < MaxLoopRuns
    /\ thread_pc' = [thread_pc EXCEPT ![0] = "run_once"]
    /\ loop_runs' = loop_runs + 1
    /\ UNCHANGED <<running, pipeline_lock>>
    /\ SchedRest

\* Scheduler.stop (39-43): the waiting loop sees the stop event and returns
StopScheduler ==
    /\ thread_pc[0] = "waiting"
    /\ thread_pc' = [thread_pc EXCEPT ![0] = "ended"]
    /\ UNCHANGED <<running, pipeline_lock, loop_runs>>
    /\ SchedRest

NextSched ==
    \/ StartScheduler
    \/ LoopWake
    \/ StopScheduler
    \/ \E t \in Threads :
          \/ TriggerNow(t)
          \/ SetRunning(t)
          \/ AcquireLock(t)
          \/ SkipRun(t)
          \/ PipelineStage(t)
          \/ ReleaseLock(t)
          \/ ClearRunning(t)

SpecSched == InitSched /\ [][NextSched]_vars

\* =================================================================
\* Claims about build_blocks_from_fit (checked under Spec)
\* =================================================================
LapIndices == 0..(Len(laps) - 1)

DurOf(i) == Item(laps, i).total_timer_time

\* the final lap when its duration is under 30 seconds is not retained
IsRetained(i) == ~(i = Len(laps) - 1 /\ DurOf(i) # None /\ DurOf(i) < 300)

RetainedLaps == {i \in LapIndices : IsRetained(i)}

\* the step the matcher and the block loop pair with lap i
MatchedStep(i) == StepOf(steps, StepIdxOf(lap_to_step, steps, i))

\* C1: after build_blocks_from_fit completes the output holds exactly one
\* block per retained lap (every lap but a final lap under 30 s): no retained
\* lap's block is missing or overwritten by another lap's block.
C1_OneBlockPerRetainedLap ==
    pc = "done" =>
        /\ Len(summary.blocks) = Cardinality(RetainedLaps)
        /\ \A i \in RetainedLaps : \E k \in DOMAIN block_laps : block_laps[k] = i

\* C2: with no laps at all the analysis is refused by raising an error and
\* no summary is returned, whatever steps and samples are present.
C2_NoLapsRefused ==
    Len(laps) = 0 =>
        /\ ~summary.returned
        /\ pc \in {"start", "raised"}
        /\ (pc = "raised" => error = "RuntimeError")

C2_Witness ==
    /\ Len(laps) = 0
    /\ Len(steps) > 0
    /\ Len(records) > 0
    /\ pc = "raised"
    /\ error = "RuntimeError"

\* C3: for any input with at least one lap and zero plan steps the run
\* completes and returns a summary with one block per retained lap instead
\* of raising.
C3_NoStepsCompletes ==
    (Len(laps) >= 1 /\ Len(steps) = 0) =>
        /\ pc # "raised"
        /\ (pc = "done" => Len(summary.blocks) = Cardinality(RetainedLaps))

\* C4: for every plan with at least one step the matching walk produces
\* exactly one assignment per lap, the i-th belonging to the i-th lap: after
\* the walk has handled k laps, lap_to_step holds k entries (a repeat marker
\* never consumes a lap or leaves it unassigned).
C4_OneAssignmentPerLap ==
    (Len(steps) >= 1 /\ pc = "walk") => Len(lap_to_step) = lap_idx

\* Scenario C: 400 s work, 200 s float, a repeat marker, a cool-down step;
\* 9 laps: 4 work/float pairs within tolerance, then one cool-down lap
IsScenarioC ==
    /\ Len(steps) = 4
    /\ ~IsRepeat(steps[1]) /\ steps[1].duration_time = 4000
    /\ ~IsRepeat(steps[2]) /\ steps[2].duration_time = 2000
    /\ IsRepeat(steps[3])
    /\ ~IsRepeat(steps[4]) /\ steps[4].intensity = "cooldown"
    /\ Len(laps) = 9
    /\ \A k \in 1..4 :
          /\ laps[2 * k - 1].total_timer_time \in 3901..4099
          /\ laps[2 * k].total_timer_time \in 1901..2099
    /\ laps[9].total_timer_time >= 300

\* C5: in Scenario C the matcher assigns the work and float steps alternately
\* to laps 0..7 and the cool-down step to the final lap.
C5_ScenarioC ==
    (IsScenarioC /\ pc \in {"blocks", "done"}) =>
        lap_to_step = <<0, 1, 0, 1, 0, 1, 0, 1, 3>>

\* the cool-down lap lasts 200 s like a float lap: it falls into what would
\* be the fifth repeat cycle
C5_Witness ==
    /\ IsScenarioC
    /\ pc = "done"
    /\ laps[9].total_timer_time = 2000
    /\ steps[4].duration_time = 3000
    /\ lap_to_step[9] = 3

\* Scenario A: laps of 600 s, 1200 s, 300 s; warm-up, work (200-220 W) and
\* cool-down steps with duration hints within tolerance of the laps
IsScenarioA ==
    /\ Len(laps) = 3
    /\ DurOf(0) = 6000 /\ DurOf(1) = 12000 /\ DurOf(2) = 3000
    /\ Len(steps) = 3
    /\ \A k \in 1..3 :
          /\ ~IsRepeat(steps[k])
          /\ steps[k].duration_time - laps[k].total_timer_time \in (0 - 99)..99
    /\ steps[1].intensity = "warmup"
    /\ steps[2].intensity = "active"
    /\ steps[2].target_type = "power"
    /\ steps[2].custom_target_power_low = 200
    /\ steps[2].custom_target_power_high = 220
    /\ steps[3].intensity = "cooldown"

\* the samples with a power value inside lap i's interval
ValidPowerIn(i) ==
    {k \in 1..Len(records) :
        /\ records[k].power # None
        /\ DurOf(i) # None
        /\ Item(laps, i).start_time <= records[k].timestamp
        /\ records[k].timestamp < Item(laps, i).start_time + DurOf(i)}

\* C6: Scenario A yields exactly 3 blocks keyed warmup, active_1, cooldown in
\* that order; the work block carries a target-power record whose
\* below/in/above percentages sum to 100.0 within rounding when the block
\* has at least one valid power sample.
C6_ScenarioA ==
    IsScenarioA =>
        /\ pc # "raised"
        /\ pc = "done" =>
              /\ Len(summary.blocks) = 3
              /\ summary.blocks[1].name = "warmup"
              /\ summary.blocks[2].name = "active_1"
              /\ summary.blocks[3].name = "cooldown"
              /\ summary.blocks[2].target_power # <<>>
              /\ ValidPowerIn(1) # {} =>
                    LET tp == summary.blocks[2].target_power[1]
                    IN  tp.pct_time_below + tp.pct_time_in_range
                            + tp.pct_time_above \in 999..1001

C6_Witness ==
    /\ IsScenarioA
    /\ pc = "done"
    /\ Cardinality(ValidPowerIn(1)) = 3
    /\ summary.blocks[2].target_power[1].pct_time_below = 333
    /\ summary.blocks[2].target_power[1].pct_time_in_range = 333
    /\ summary.blocks[2].target_power[1].pct_time_above = 333

\* C7: the block loop skips a lap if and only if it is the final lap and its
\* duration is strictly under 30 seconds (30.0 s is retained, 29.9 s is
\* dropped, a non-final lap is never skipped); a skipped lap gets no block.
C7_SkipOnlyShortFinalLap ==
    pc \in {"blocks", "done"} =>
        /\ \A i \in 0..(lap_idx - 1) :
              i \in skipped <=>
                  (i = Len(laps) - 1 /\ DurOf(i) # None /\ DurOf(i) <= 299)
        /\ \A i \in skipped : \A k \in DOMAIN block_laps : block_laps[k] # i

C7_Witness ==
    /\ pc = "done"
    /\ Len(laps) = 3
    /\ DurOf(0) = 2000 /\ DurOf(1) = 299 /\ DurOf(2) = 299
    /\ skipped = {2}
    /\ \E k \in DOMAIN block_laps : block_laps[k] = 1

\* the step declares a power target band
DeclaresBand(step) ==
    /\ step.target_type = "power"
    /\ step.custom_target_power_low # None
    /\ step.custom_target_power_high # None

\* C9 (Scenario D): a block whose matched step declares a power target band
\* and whose interval holds zero valid power samples has a target-power
\* record with all three percentages 0.0; no error is raised for it.
C9_ScenarioD ==
    pc = "done" =>
        \A n \in 1..Len(summary.blocks) :
            LET b == summary.blocks[n]
                i == block_laps[b.name]
            IN  (DeclaresBand(MatchedStep(i)) /\ ValidPowerIn(i) = {}) =>
                    /\ b.target_power # <<>>
                    /\ b.target_power[1].pct_time_below = 0
                    /\ b.target_power[1].pct_time_in_range = 0
                    /\ b.target_power[1].pct_time_above = 0

\* a block whose interval holds one sample, without power
C9_Witness ==
    /\ pc = "done"
    /\ \E n \in 1..Len(summary.blocks) :
          LET b == summary.blocks[n]
              i == block_laps[b.name]
          IN  /\ DeclaresBand(MatchedStep(i))
              /\ ValidPowerIn(i) = {}
              /\ records_for_lap(records, Item(laps, i)) # <<>>
              /\ b.target_power # <<>>
              /\ b.target_power[1].pct_time_in_range = 0

\* =================================================================
\* Claims about compute_power_band_stats (checked under SpecBand)
\* =================================================================
\* the records of the call that carry a power value
BandValid == {k \in 1..Len(arg_records) : arg_records[k].power # None}

BandBelow == {k \in BandValid : 100 * arg_records[k].power < arg_min_w}

BandWithin ==
    {k \in BandValid : /\ arg_min_w <= 100 * arg_records[k].power
                       /\ 100 * arg_records[k].power <= arg_max_w}

BandAbove == {k \in BandValid : 100 * arg_records[k].power > arg_max_w}

\* pct (tenths of a percent) is count / total rounded to one decimal
IsPctOf(pct, count, total) ==
    LET d == pct * total - 1000 * count
    IN  2 * d <= total /\ 0 - 2 * d <= total

\* C8: compute_power_band_stats partitions the valid power samples: every
\* sample with a power value is counted in exactly one of below (p < min_w),
\* within (min_w <= p <= max_w, bounds inclusive) or above (p > max_w),
\* samples without power are counted nowhere, and each percentage is
\* 100 * count / (below + within + above) rounded to one decimal.  (With an
\* inverted band, min_w > max_w, a sample between the bounds satisfies both
\* p < min_w and p > max_w; it is counted once, as below.)
C8_BandPartition ==
    (band_stats # <<>> /\ BandValid # {}) =>
        LET r     == band_stats[1]
            total == Cardinality(BandValid)
            rest  == BandValid \ (BandBelow \cup BandWithin)
        IN  /\ rest \subseteq BandAbove
            /\ (arg_min_w <= arg_max_w => rest = BandAbove)
            /\ Cardinality(BandBelow) + Cardinality(BandWithin)
                   + Cardinality(rest) = total
            /\ IsPctOf(r.below, Cardinality(BandBelow), total)
            /\ IsPctOf(r.in, Cardinality(BandWithin), total)
            /\ IsPctOf(r.above, Cardinality(rest), total)

\* a sample without power, one on each inclusive bound, one above
C8_Witness ==
    /\ band_stats # <<>>
    /\ arg_min_w = 20000 /\ arg_max_w = 22000
    /\ Len(arg_records) = 4
    /\ {arg_records[k].power : k \in 1..4} = {None, 200, 220, 221}
    /\ band_stats[1] = [below |-> 0, in |-> 667, above |-> 333]

\* =================================================================
\* Claims about extract_hr_zones (checked under SpecZones)
\* =================================================================
\* how often v occurs in the sequence s
Occurrences(s, v) == Cardinality({k \in 1..Len(s) : s[k] = v})

\* the tuple of upper bounds the call works from
GivenBounds == ZonesRaw(hr_zone_msgs, unknown_216)

\* C10: for every non-empty tuple of zone upper bounds, in any input order,
\* extract_hr_zones produces zones Z1..Zn with non-decreasing upper bounds
\* (the given bounds, each once), Z1 starting at 0, and each later zone's
\* lower bound equal to the previous zone's upper bound + 1.
C10_ZonesContiguous ==
    (/\ zones_called
     /\ GivenBounds # <<>>
     /\ \A k \in 1..Len(GivenBounds) : GivenBounds[k] # None) =>
        /\ hr_zone_def # <<>>
        /\ LET z == hr_zone_def[1].zones
               n == Len(GivenBounds)
           IN  /\ Len(z) = n
               /\ z[1].min_bpm = 0
               /\ \A k \in 1..n : z[k].label = "Z" \o ToString(k)
               /\ \A k \in 1..(n - 1) :
                     /\ z[k].max_bpm <= z[k + 1].max_bpm
                     /\ z[k + 1].min_bpm = z[k].max_bpm + 1
               /\ \A k \in 1..n :
                     Occurrences([j \in 1..n |-> z[j].max_bpm], GivenBounds[k])
                         = Occurrences(GivenBounds, GivenBounds[k])

\* the vendor tuple given out of order
C10_Witness ==
    /\ zones_called
    /\ GivenBounds = <<151, 91, 134>>
    /\ hr_zone_def # <<>>
    /\ hr_zone_def[1].zones =
           <<[label |-> "Z1", min_bpm |-> 0, max_bpm |-> 91],
             [label |-> "Z2", min_bpm |-> 92, max_bpm |-> 134],
             [label |-> "Z3", min_bpm |-> 135, max_bpm |-> 151]>>

\* =================================================================
\* Claims about extract_records (checked under SpecRecords)
\* =================================================================
\* the positions of the input messages that carry a timestamp
Timestamped == {k \in 1..Len(record_msgs) : record_msgs[k].timestamp # None}

\* C11: for every input order of record messages, the series returned by
\* extract_records is sorted by non-decreasing timestamp, contains no record
\* without a timestamp, and contains every timestamped input record exactly
\* once.
C11_RecordsSorted ==
    records_called =>
        /\ \A k \in 1..Len(extracted) : extracted[k].timestamp # None
        /\ \A k \in 1..(Len(extracted) - 1) :
              extracted[k].timestamp <= extracted[k + 1].timestamp
        /\ Len(extracted) = Cardinality(Timestamped)
        /\ \A k \in Timestamped :
              Occurrences(extracted, RecordOf(record_msgs[k]))
                  = Cardinality({j \in Timestamped :
                                    record_msgs[j] = record_msgs[k]})

\* messages out of order, one of them without a timestamp
C11_Witness ==
    /\ records_called
    /\ Len(record_msgs) = 4
    /\ record_msgs[1].timestamp = 20
    /\ record_msgs[2].timestamp = None
    /\ record_msgs[3].timestamp = 0
    /\ record_msgs[4].timestamp = 10
    /\ Len(extracted) = 3
    /\ extracted[1].timestamp = 0 /\ extracted[3].timestamp = 20

\* =================================================================
\* Claims about the vendor decoding (checked under SpecVendor)
\* =================================================================
Decodable(raw) == raw # None /\ raw # Undecodable

\* C12: vendor values are decoded independently: a missing or undecodable
\* field for one of VO2max, recovery time, lactate-threshold heart rate or
\* zone boundaries yields absent for that value only, and every other value
\* whose field is present and decodable in some message is produced in the
\* summary.
C12_VendorIndependent ==
    vendor_summary # <<>> =>
        LET out == vendor_summary[1]
        IN  /\ (\E k \in 1..Len(unknown_140) : Decodable(unknown_140[k].unknown_7))
                  <=> out.vo2_max # None
            /\ (\E k \in 1..Len(unknown_140) : Decodable(unknown_140[k].unknown_9))
                  <=> out.recovery_time_min # None
            /\ (\E k \in 1..Len(unknown_13) : Decodable(unknown_13[k]))
                  <=> out.lthr # None
            /\ (\E k \in 1..Len(unknown_216) : unknown_216[k].has_unknown_6)
                  <=> out.hr_zone_definition # <<>>

\* =================================================================
\* Claims about the HR drift (checked under SpecDrift)
\* =================================================================
\* the block's samples that carry a timestamp and a positive heart rate
DriftValid ==
    {k \in 1..Len(drift_recs) :
        /\ drift_recs[k].timestamp # None
        /\ drift_recs[k].heart_rate # None
        /\ drift_recs[k].heart_rate > 0}

\* the valid samples at or before the temporal midpoint, and after it
MidSplit ==
    LET V    == DriftValid
        t0   == SetMin({drift_recs[k].timestamp : k \in V})
        tend == 0 - SetMin({0 - drift_recs[k].timestamp : k \in V})
        half == {k \in V : 2 * (drift_recs[k].timestamp - t0) <= tend - t0}
    IN  [before |-> half, after |-> V \ half]

\* sum of the heart rates of the samples in S, value by value
RECURSIVE HrTotalBy(_, _)
HrTotalBy(values, S) ==
    IF values = {} THEN 0
    ELSE LET v == CHOOSE x \in values : TRUE
         IN  v * Cardinality({k \in S : drift_recs[k].heart_rate = v})
             + HrTotalBy(values \ {v}, S)

HrTotal(S) == HrTotalBy({drift_recs[k].heart_rate : k \in S}, S)

\* the two means as fractions: sum and count of each half
HalfMeans ==
    LET sp == MidSplit
    IN  [s1 |-> HrTotal(sp.before), c1 |-> Cardinality(sp.before),
         s2 |-> HrTotal(sp.after),  c2 |-> Cardinality(sp.after)]

\* (mean HR after the midpoint) - (mean HR at or before it), times both counts
MeanDiffOf(h) == h.s2 * h.c1 - h.s1 * h.c2

Sign(x) == IF x > 0 THEN 1 ELSE IF x < 0 THEN 0 - 1 ELSE 0

\* a 20-minute block of type warm-up, work or float with per-second samples
\* rising linearly from 140 to 160 bpm
IsScenarioB ==
    /\ drift_type \in {"warmup", "work", "float"}
    /\ drift_duration_min = 200
    /\ Len(drift_recs) = 1200
    /\ \A k \in 1..1200 :
          /\ drift_recs[k].timestamp = 10 * (k - 1)
          /\ drift_recs[k].heart_rate # None
          /\ Abs(1199 * (drift_recs[k].heart_rate - 140) - 20 * (k - 1)) < 1199
    /\ drift_recs[1].heart_rate = 140
    /\ drift_recs[1200].heart_rate = 160

\* C13 as stated: in Scenario B the drift is present and strictly positive,
\* and whenever a drift is computed its sign is the sign of (mean HR of the
\* samples after the temporal midpoint) minus (mean HR of the samples at or
\* before it).
C13_DriftSignExact ==
    hr_drift_pct # <<>> =>
        /\ IsScenarioB => (hr_drift_pct[1] # None /\ hr_drift_pct[1] > 0)
        /\ hr_drift_pct[1] # None =>
              Sign(hr_drift_pct[1]) = Sign(MeanDiffOf(HalfMeans))

\* C13 (amended): in Scenario B the drift is present and strictly positive;
\* whenever a drift is computed it never has the sign opposite to (mean HR
\* after the midpoint) minus (mean HR at or before it): a positive drift
\* means a positive difference, a negative drift a negative difference, and
\* the drift is 0.0 exactly when the unrounded percentage is within 0.005 of
\* zero, which includes differences that are not zero.
C13_DriftSign ==
    hr_drift_pct # <<>> =>
        /\ IsScenarioB => (hr_drift_pct[1] # None /\ hr_drift_pct[1] > 0)
        /\ hr_drift_pct[1] # None =>
              LET h == HalfMeans
                  d == MeanDiffOf(h)
              IN  /\ hr_drift_pct[1] > 0 => d > 0
                  /\ hr_drift_pct[1] < 0 => d < 0
                  /\ hr_drift_pct[1] = 0 <=> Abs(d) <= (h.s1 * h.c2) \div 20000

\* Scenario B on a work block
C13_Witness ==
    /\ IsScenarioB
    /\ drift_type = "work"
    /\ hr_drift_pct # <<>>
    /\ hr_drift_pct[1] # None
    /\ hr_drift_pct[1] > 0

\* =================================================================
\* Claims about the recovery time (checked under SpecVendor)
\* =================================================================
\* the text of a day / hour / minute split
ReadableText(D, H, MM) ==
    (IF D = 0 THEN "" ELSE ToString(D) \o "d ")
        \o ToString(H) \o ":" \o ToString(MM \div 10) \o ToString(MM % 10)

WalkStepEnabled == pc = "walk" /\ lap_idx < Len(laps)

\* the duration the walk reads from the lap it is about to handle
CurLapDuration ==
    LET dur == Item(laps, lap_idx).total_timer_time
    IN  IF dur = None THEN 0 ELSE dur

\* the cursor rests on a repeat marker
OnMarker ==
    seq_idx < Len(step_sequence) /\ Item(step_sequence, seq_idx).type = "repeat"

\* the cursor once a repeat marker under it has been passed (step 2 of the
\* algorithm); the lap is evaluated against the entry at this position
Cursor == IF OnMarker THEN seq_idx + 1 ELSE seq_idx

CursorOnStep ==
    Cursor < Len(step_sequence) /\ Item(step_sequence, Cursor).type = "step"

\* the duration hint of the step entry at sequence position c
HintAt(c) == Item(steps, Item(step_sequence, c).data).duration_time

\* the lap about to be handled is within 10 s of the hint at position c
NearHint(c) ==
    LET diff == CurLapDuration - HintAt(c)
    IN  diff < 100 /\ 0 - diff < 100

NextIsMarker ==
    Cursor + 1 < Len(step_sequence)
        /\ Item(step_sequence, Cursor + 1).type = "repeat"

\* the walk handles one lap in this step
HandlesLap == WalkStepEnabled /\ lap_idx' = lap_idx + 1

\* C15: a lap is matched to the step under the cursor exactly when the
\* absolute difference between its duration and the step's hint is strictly
\* below 10 s: then it is assigned the cursor's step, even if another step
\* is within tolerance too, and the cursor advances unless a repeat marker
\* follows; with a difference of 10 s or more (exactly 10 included) the lap
\* is handled as a mismatch and the cursor stays.
C15_MatchTolerance ==
    [][(HandlesLap /\ CursorOnStep) =>
          IF NearHint(Cursor)
          THEN /\ lap_to_step' = Append(lap_to_step, Item(step_sequence, Cursor).data)
               /\ (~NextIsMarker => seq_idx' = Cursor + 1)
          ELSE seq_idx' = Cursor]_vars

\* the first lap is exactly 10 s longer than the first hint, the next hint is
\* 5 s from it and within tolerance: handled as a mismatch, the cursor stayed
C15_Witness ==
    /\ pc = "walk"
    /\ lap_idx = 1
    /\ Len(steps) = 8
    /\ laps[1].total_timer_time = steps[1].duration_time + 100
    /\ steps[2].duration_time = steps[1].duration_time + 50
    /\ seq_idx = 0
    /\ lap_to_step = <<1>>

\* C16: after a lap matches the step under the cursor the cursor advances by
\* exactly one entry, unless the next entry is a repeat marker: then it does
\* not move.
C16_AdvanceOrHold ==
    [][(HandlesLap /\ CursorOnStep /\ NearHint(Cursor)) =>
          seq_idx' = IF NextIsMarker THEN Cursor ELSE Cursor + 1]_vars

\* Scenario C after its second lap: the float step matched and the cursor is
\* held on it because the repeat marker follows
C16_Witness ==
    /\ IsScenarioC
    /\ pc = "walk"
    /\ lap_idx = 2
    /\ lap_to_step = <<0, 1>>
    /\ seq_idx = 1

\* the step entries at the positions c-5 .. c+5 around the cursor, clipped to
\* the sequence, whose hint is within 10 s of the lap
NearInWindow ==
    {c \in (Cursor - 5)..(Cursor + 5) :
        /\ 0 <= c /\ c < Len(step_sequence)
        /\ Item(step_sequence, c).type = "step"
        /\ NearHint(c)}

\* the lap handled in this step was assigned a step whose hint is within
\* 10 s of its duration
AssignedNear ==
    /\ Len(lap_to_step') = Len(lap_to_step) + 1
    /\ LET diff == CurLapDuration
                     - Item(steps, lap_to_step'[Len(lap_to_step')]).duration_time
       IN  diff < 100 /\ 0 - diff < 100

\* C17: on a mismatch at cursor position c the repair search covers the five
\* entries before and the five entries after the cursor: whenever a step
\* entry at a position in c-5..c+5 has a hint within 10 s of the lap's
\* duration, the lap is assigned a step within tolerance.
C17_WindowFiveEachSide ==
    [][(HandlesLap /\ CursorOnStep /\ ~NearHint(Cursor) /\ NearInWindow # {})
          => AssignedNear]_vars

C19_SurplusLaps ==
    [][(HandlesLap /\ seq_idx >= Len(step_sequence) /\ steps # <<>>) =>
          /\ seq_idx' = seq_idx
          /\ lap_to_step' =
                Append(lap_to_step,
                       IF lap_to_step # <<>> THEN lap_to_step[Len(lap_to_step)]
                       ELSE Len(steps) - 1)]_vars

\* two steps, three laps: the third lap found the sequence exhausted and
\* took the second lap's step
C19_Witness ==
    /\ pc = "walk"
    /\ lap_idx = 3
    /\ Len(step_sequence) = 2
    /\ seq_idx = 2
    /\ lap_to_step = <<0, 1, 1>>

\* the final sequence entry is a step tagged cool-down
FinalIsCoolDown ==
    /\ step_sequence # <<>>
    /\ step_sequence[Len(step_sequence)].type = "step"
    /\ Item(steps, step_sequence[Len(step_sequence)].data).intensity = "cooldown"

\* C20: the post-pass changes an assignment only when the final sequence
\* entry is a step tagged cool-down that the walk assigned to no lap;
\* otherwise it leaves every lap's assignment unchanged.
C20_PostPassOnlyWhenUnassigned ==
    [][(pc = "walk" /\ pc' = "blocks" /\ lap_to_step' # lap_to_step) =>
          /\ FinalIsCoolDown
          /\ \A k \in 1..Len(lap_to_step) :
                lap_to_step[k] # step_sequence[Len(step_sequence)].data]_vars

\* lap number i (counted from 0) lasts at least 30 s
LastsThirty(i) ==
    Item(laps, i).total_timer_time # None /\ Item(laps, i).total_timer_time >= 300

\* C21: whenever the post-pass force-assigns the cool-down step, the lap that
\* receives it is the highest-indexed lap of at least 30 s and it is the only
\* lap whose assignment changes; no lap shorter than 30 s is force-assigned.
C21_ForceAssignsLastRealLap ==
    [][(pc = "walk" /\ pc' = "blocks" /\ lap_to_step' # lap_to_step) =>
          /\ Len(lap_to_step') = Len(lap_to_step)
          /\ \E k \in 0..(Len(lap_to_step) - 1) :
                /\ \A j \in 0..(Len(lap_to_step) - 1) :
                      j # k => Item(lap_to_step', j) = Item(lap_to_step, j)
                /\ LastsThirty(k)
                /\ \A j \in (k + 1)..(Len(laps) - 1) : ~LastsThirty(j)]_vars

\* the step declares an intensity or a name
DeclaresHint(step) == step.intensity # "none" \/ step.step_name # {}

\* the type the step's name and intensity give at a position where neither
\* position fallback can apply (a middle lap)
TypeFromHint(step) == classify_block_type(step, 1, 3)

\* C22: a lap whose matched step declares an intensity or a name is typed
\* from that hint alone, whatever the lap's position: the position fallbacks
\* (first lap warmup, last lap cooldown) apply only to steps without hints.
C22_HintBeforePosition ==
    \A k \in DOMAIN block_laps :
        LET i == block_laps[k]
        IN  DeclaresHint(MatchedStep(i)) =>
                blocks[k].type = TypeFromHint(MatchedStep(i))

\* =================================================================
\* Claims about the per-block heart-rate metrics (checked under SpecDrift)
\* =================================================================
\* first and last timestamp of the block's valid samples
ValidSpan ==
    LET V == DriftValid
    IN  IF V = {} THEN 0
        ELSE (0 - SetMin({0 - drift_recs[k].timestamp : k \in V}))
                - SetMin({drift_recs[k].timestamp : k \in V})

LapLasts(d) ==
    drift_lap.total_timer_time # None /\ drift_lap.total_timer_time >= d

\* C23: a block carries a drift value only if its type is warmup, work or
\* float, its lap lasts at least 480 s, and its interval holds at least 20 valid
\* heart-rate samples spanning at least 480 s with at least 10 samples in each
\* temporal half; for every cooldown block and every block shorter than 480 s
\* the drift is absent.
C23_DriftOnlyWhenEligible ==
    hr_drift_pct # <<>> =>
        /\ hr_drift_pct[1] # None =>
              /\ drift_type \in {"warmup", "work", "float"}
              /\ LapLasts(4800)
              /\ Cardinality(DriftValid) >= 20
              /\ ValidSpan >= 4800
              /\ LET sp == MidSplit
                 IN  Cardinality(sp.before) >= 10 /\ Cardinality(sp.after) >= 10
        /\ (drift_type = "cooldown" \/ ~LapLasts(4800)) => hr_drift_pct[1] = None

\* a work block over a lap of 480.1 s carries a drift, and a block over a lap
\* of 478 s (8.0 minutes after rounding) was evaluated
C23_Witness ==
    /\ hr_drift_pct # <<>>
    /\ drift_type = "work"
    /\ \/ drift_lap.total_timer_time = 4801 /\ hr_drift_pct[1] # None
       \/ /\ drift_lap.total_timer_time = 4780
          /\ drift_duration_min = 80
          /\ Cardinality(DriftValid) >= 20
          /\ hr_drift_pct[1] = None

\* the valid samples within the first / last 5 s of the valid samples' span
EdgeWindows ==
    LET V    == DriftValid
        t0   == SetMin({drift_recs[k].timestamp : k \in V})
        tend == 0 - SetMin({0 - drift_recs[k].timestamp : k \in V})
    IN  [first |-> {k \in V : drift_recs[k].timestamp - t0 <= 50},
         last  |-> {k \in V : tend - drift_recs[k].timestamp <= 50}]

\* C24: for every block whose lap lasts longer than 30 s and whose interval
\* holds at least 4 valid heart-rate samples spanning at least 30 s, the
\* start/end delta is present and equals the mean of the samples within the
\* last 5 s minus the mean of the samples within the first 5 s, rounded to one
\* decimal.
C24_DeltaPresent ==
    (/\ hr_first5s_to_last5s_delta # <<>>
     /\ LapLasts(301)
     /\ Cardinality(DriftValid) >= 4
     /\ ValidSpan >= 300) =>
        LET w == EdgeWindows
        IN  /\ hr_first5s_to_last5s_delta[1] # None
            /\ hr_first5s_to_last5s_delta[1] =
                  RoundDiv(10 * (HrTotal(w.last) * Cardinality(w.first)
                                    - HrTotal(w.first) * Cardinality(w.last)),
                           Cardinality(w.first) * Cardinality(w.last))

\* =================================================================
\* Claims about extract_power_target (checked under SpecTarget)
\* =================================================================
\* the raw band the function reads from the step: power fields first
RawBand(step) ==
    IF step.custom_target_power_low # None /\ step.custom_target_power_high # None
    THEN <<step.custom_target_power_low, step.custom_target_power_high>>
    ELSE <<step.custom_target_value_low, step.custom_target_value_high>>

\* C25: for every raw low value strictly between 1000 and 100000 the returned
\* band is the raw band divided by 10 or by 100, low and high by the same
\* factor, and the returned low is at most 1000 W; raw low values of 1000 or
\* less are returned unchanged.  (Returned values are in hundredths of a watt.)
C25_Rescaled ==
    (power_target # <<>> /\ power_target[1][1] # None) =>
        LET raw == RawBand(target_step)
            out == power_target[1]
        IN  /\ (raw[1] > 1000 /\ raw[1] < 100000) =>
                  /\ \E f \in {10, 100} :
                        out[1] * f = 100 * raw[1] /\ out[2] * f = 100 * raw[2]
                  /\ out[1] <= 100000
            /\ raw[1] <= 1000 => out = <<100 * raw[1], 100 * raw[2]>>

\* =================================================================
\* Claims about the zone distribution (checked under SpecDist)
\* =================================================================
\* the samples with a non-null, non-zero heart rate
DistValid ==
    {k \in 1..Len(dist_records) :
        dist_records[k].heart_rate # None /\ dist_records[k].heart_rate # 0}

\* the valid samples whose heart rate lies within the inclusive bounds of z
SamplesIn(z) ==
    {k \in DistValid : /\ z.min_bpm <= dist_records[k].heart_rate
                       /\ dist_records[k].heart_rate <= z.max_bpm}

\* C26: each sample with a non-null, non-zero heart rate is counted in exactly
\* the zone whose inclusive bounds contain it; each zone reports
\* 100 * count / (sum of all zone counts) rounded to one decimal; a sample in
\* no zone is left out of count and total; the result is absent when there is
\* no zone definition or no sample was counted.
C26_ZoneDistribution ==
    hr_zones # <<>> =>
        IF dist_zone_def = <<>> THEN hr_zones[1] = <<>>
        ELSE LET zs      == dist_zone_def[1].zones
                 counted == UNION {SamplesIn(zs[j]) : j \in 1..Len(zs)}
             IN  /\ \A k \in DistValid :
                       Cardinality({j \in 1..Len(zs) : k \in SamplesIn(zs[j])}) <= 1
                 /\ IF counted = {} THEN hr_zones[1] = <<>>
                    ELSE /\ hr_zones[1] # <<>>
                         /\ Len(hr_zones[1]) = Len(zs)
                         /\ \A j \in 1..Len(zs) :
                               /\ hr_zones[1][j].label = zs[j].label
                               /\ hr_zones[1][j].pct =
                                     RoundDiv(1000 * Cardinality(SamplesIn(zs[j])),
                                              Cardinality(counted))

\* a distribution over two zones from a sample on a zone's upper bound, a
\* sample above every zone and a sample with heart rate zero
C26_Witness ==
    /\ hr_zones # <<>>
    /\ Len(hr_zones[1]) = 2
    /\ \E k \in DistValid : dist_records[k].heart_rate = 120
    /\ \E k \in DistValid : dist_records[k].heart_rate = 151
    /\ \E k \in 1..Len(dist_records) : dist_records[k].heart_rate = 0
    /\ hr_zones[1][1].pct = 1000

\* =================================================================
\* Claims about records_for_lap (checked under SpecLapRec)
\* =================================================================
HasInterval(lap) == lap.start_time # None /\ lap.total_timer_time # None

LapEnd(lap) == lap.start_time + lap.total_timer_time

\* the intervals of two laps have no instant in common
Disjoint(a, b) ==
    (HasInterval(a) /\ HasInterval(b)) =>
        (LapEnd(a) <= b.start_time \/ LapEnd(b) <= a.start_time)

\* the timestamps of the samples returned for lap i
TimesOf(i) == {in_lap[i][k].timestamp : k \in 1..Len(in_lap[i])}

AllTimes == {rl_records[k].timestamp : k \in 1..Len(rl_records)}

\* C27: a lap's samples are exactly those with start <= timestamp < start +
\* duration; when the laps' intervals do not overlap every sample belongs to at
\* most one lap; a sample exactly at a lap's end is not in that lap and is in the
\* lap that starts there; a lap without start time or duration gets no samples.
C27_HalfOpenInterval ==
    in_lap # <<>> =>
        /\ \A i \in 1..Len(rl_laps) :
              LET lap == rl_laps[i]
              IN  /\ Len(in_lap[i]) = Cardinality(TimesOf(i))
                  /\ IF HasInterval(lap)
                     THEN /\ TimesOf(i) = {t \in AllTimes :
                                              lap.start_time <= t /\ t < LapEnd(lap)}
                          /\ LapEnd(lap) \notin TimesOf(i)
                     ELSE in_lap[i] = <<>>
        /\ \A i, j \in 1..Len(rl_laps) :
              (i # j /\ Disjoint(rl_laps[i], rl_laps[j])) =>
                  TimesOf(i) \cap TimesOf(j) = {}
        /\ \A i, j \in 1..Len(rl_laps) :
              (/\ HasInterval(rl_laps[i]) /\ HasInterval(rl_laps[j])
               /\ rl_laps[j].start_time = LapEnd(rl_laps[i])
               /\ rl_laps[j].total_timer_time > 0
               /\ LapEnd(rl_laps[i]) \in AllTimes) =>
                  LapEnd(rl_laps[i]) \in TimesOf(j)

\* two consecutive laps of 10 s with a sample exactly on their common boundary
C27_Witness ==
    /\ in_lap # <<>>
    /\ rl_laps = <<Lap(0, 100), Lap(100, 100)>>
    /\ 100 \in AllTimes
    /\ 100 \in TimesOf(2)
    /\ 99 \in TimesOf(1)

\* =================================================================
\* Claims about the repeat markers (checked under Spec)
\* =================================================================
\* the plan with every repeat marker's back-reference and count replaced
WithMarkers(stps, ds, rs) ==
    [k \in 1..Len(stps) |->
        IF IsRepeat(stps[k])
        THEN [stps[k] EXCEPT !.duration_step = ds, !.repeat_steps = rs]
        ELSE stps[k]]

\* lap_to_step after the walk over the laps from lap k on
RECURSIVE WalkFrom(_, _, _, _, _, _)
WalkFrom(seq, stps, lps, k, l2s, cur) ==
    IF k >= Len(lps) THEN l2s
    ELSE LET w == WalkOne(seq, stps, l2s, cur, LapDuration(Item(lps, k)))
         IN  WalkFrom(seq, stps, lps, k + 1, w.lap_to_step, w.seq_idx)

\* the assignment the matcher and its post-pass produce for a plan and laps
AssignmentOf(lps, stps) ==
    LET seq == FlattenSteps(stps)
    IN  PostPassResult(seq, stps, lps, WalkFrom(seq, stps, lps, 0, <<>>, 0))

MatcherDone == pc = "blocks" /\ lap_idx = 0

\* C28: the lap-to-step assignment does not depend on what a repeat marker
\* carries: the plan with any other back-reference index, replayed range or
\* repeat count gives, for the same laps, the assignment the run produced; so
\* the laps matched to a repeated block are not bounded by the declared count.
C28_MarkerDataIgnored ==
    (MatcherDone /\ \E k \in 1..Len(steps) : IsRepeat(steps[k])) =>
        \A ds \in {None, 0, 2}, rs \in {None, 1, 4} :
            AssignmentOf(laps, WithMarkers(steps, ds, rs)) = lap_to_step

\* a marker declaring one repetition of the work / float pair, and six laps
\* matched to the pair
C28_Witness ==
    /\ MatcherDone
    /\ Len(steps) = 4
    /\ IsRepeat(steps[3])
    /\ steps[3].repeat_steps = 1
    /\ steps[3].duration_step = 0
    /\ Cardinality({i \in 1..Len(lap_to_step) : lap_to_step[i] \in {0, 1}}) >= 6

\* =================================================================
\* Claims about the cursor and the repeat markers (checked under Spec)
\* =================================================================
\* the sequence positions before position c that hold a repeat marker
MarkersBefore(c) ==
    {m \in 0..(c - 1) : Item(step_sequence, m).type = "repeat"}

\* a repeat marker at position m with a step entry somewhere before it
FollowsAStep(m) ==
    \E q \in 0..(m - 1) : Item(step_sequence, q).type = "step"

\* the cursor rests on a step entry and the next entry is a repeat marker
HeldBeforeMarker ==
    /\ seq_idx + 1 < Len(step_sequence)
    /\ Item(step_sequence, seq_idx).type = "step"
    /\ Item(step_sequence, seq_idx + 1).type = "repeat"

\* C29 as stated: the cursor never decreases; once it rests on a step
\* immediately followed by a repeat marker it never moves again; and a lap is
\* never evaluated with the cursor on a step placed after a repeat marker.
C29_CursorNeverPassesMarker ==
    [][HandlesLap =>
          /\ seq_idx' >= seq_idx
          /\ HeldBeforeMarker => seq_idx' = seq_idx
          /\ CursorOnStep => MarkersBefore(Cursor) = {}]_vars

\* C29 (amended): the cursor never decreases; once it rests on a step
\* immediately followed by a repeat marker it never moves again; the cursor
\* passes a repeat marker only while no step entry precedes that marker (the
\* markers at the head of the sequence), so a lap is never evaluated with the
\* cursor on a step placed after a repeat marker that follows a step.
C29_CursorHeldAtMarker ==
    [][HandlesLap =>
          /\ seq_idx' >= seq_idx
          /\ HeldBeforeMarker => seq_idx' = seq_idx
          /\ CursorOnStep =>
                \A m \in MarkersBefore(Cursor) : ~FollowsAStep(m)]_vars

\* work / float / marker / cool-down: after six laps the cursor still rests on
\* the float step before the marker, and the walk handled a mismatching lap
C29_Witness ==
    /\ pc = "walk"
    /\ Len(steps) = 4
    /\ IsRepeat(steps[3])
    /\ lap_idx = 6
    /\ seq_idx = 1
    /\ lap_to_step = <<0, 1, 1, 0, 1, 3>>

\* =================================================================
\* Claims about the scheduler (checked under SpecSched)
\* =================================================================
\* a pipeline run started by thread t is executing: it holds the lock
Executing(t) == thread_pc[t] \in {"sync", "parse", "analyze", "release"}

\* C30: is_syncing is true whenever a pipeline run started through the
\* scheduler is executing, under any interleaving of the periodic loop and
\* trigger_now: a second _run_once that finds the lock taken and returns as
\* skipped never leaves is_syncing false while the first run is in progress.
C30_SyncingWhileRunning ==
    (\E t \in Threads : Executing(t)) => running

====
